---- MODULE Spec2Model ----
(***************************************************************************)
(* Ditrive: large-file synchronisation engine.                             *)
(* Text is modelled as a sequence of one-character strings, so that the   *)
(* ignore-file parser, the pattern translation and the glob matcher work  *)
(* on characters as the code does.                                         *)
(***************************************************************************)
EXTENDS Integers, Sequences, FiniteSets, TLC

(***************************************************************************)
(* Text helpers (Rust str methods used by the code)                        *)
(***************************************************************************)
NL == "\n"

IsWhite(c) == c \in {" ", NL}

\* str::trim_start
RECURSIVE TrimStart(_)
TrimStart(s) ==
    IF s = <<>> THEN <<>>
    ELSE IF IsWhite(Head(s)) THEN TrimStart(Tail(s)) ELSE s

\* str::trim_end
RECURSIVE TrimEnd(_)
TrimEnd(s) ==
    IF s = <<>> THEN <<>>
    ELSE IF IsWhite(s[Len(s)]) THEN TrimEnd(SubSeq(s, 1, Len(s) - 1)) ELSE s

\* str::trim
Trim(s) == TrimEnd(TrimStart(s))

\* str::starts_with(char)
StartsWith(s, c) == Len(s) > 0 /\ s[1] = c

\* str::ends_with(char)
EndsWith(s, c) == Len(s) > 0 /\ s[Len(s)] = c

\* str::lines: split on newlines, a final newline ends the last line
RECURSIVE LinesFrom(_, _, _)
LinesFrom(s, i, cur) ==
    IF i > Len(s) THEN (IF cur = <<>> THEN <<>> ELSE <<cur>>)
    ELSE IF s[i] = NL THEN <<cur>> \o LinesFrom(s, i + 1, <<>>)
    ELSE LinesFrom(s, i + 1, Append(cur, s[i]))

Lines(s) == LinesFrom(s, 1, <<>>)

(***************************************************************************)
(* glob::Pattern as used by GitIgnoreParser                                *)
(***************************************************************************)
IsSeparator(c) == c = "/"

TokAnyChar == [t |-> "AnyChar", c |-> ""]
TokAnySequence == [t |-> "AnySequence", c |-> ""]
TokAnyRecursiveSequence == [t |-> "AnyRecursiveSequence", c |-> ""]
TokChar(ch) == [t |-> "Char", c |-> ch]

PatternError == [err |-> TRUE, tokens |-> <<>>]

\* number of consecutive '*' starting at position i
RECURSIVE StarRun(_, _)
StarRun(chars, i) ==
    IF i <= Len(chars) /\ chars[i] = "*" THEN 1 + StarRun(chars, i + 1) ELSE 0

\* Pattern::new: the token sequence of a glob, or PatternError.
\* i is the 1-based position of the next character.
RECURSIVE PatternTokens(_, _, _)
PatternTokens(chars, i, tokens) ==
    IF i > Len(chars) THEN [err |-> FALSE, tokens |-> tokens]
    ELSE IF chars[i] = "?" THEN PatternTokens(chars, i + 1, Append(tokens, TokAnyChar))
    ELSE IF chars[i] = "*" THEN
        LET count == StarRun(chars, i)
            j == i + count
        IN  IF count > 2 THEN PatternError
            ELSE IF count = 2 THEN
                IF i = 1 \/ IsSeparator(chars[i - 1]) THEN
                    IF j <= Len(chars) /\ IsSeparator(chars[j]) THEN
                        PatternTokens(chars, j + 1,
                            IF Len(tokens) > 1 /\ tokens[Len(tokens)] = TokAnyRecursiveSequence
                            THEN tokens ELSE Append(tokens, TokAnyRecursiveSequence))
                    ELSE IF j = Len(chars) + 1 THEN
                        PatternTokens(chars, j,
                            IF Len(tokens) > 1 /\ tokens[Len(tokens)] = TokAnyRecursiveSequence
                            THEN tokens ELSE Append(tokens, TokAnyRecursiveSequence))
                    ELSE PatternError
                ELSE PatternError
            ELSE PatternTokens(chars, j, Append(tokens, TokAnySequence))
    \* a character class needs a closing bracket; the modelled alphabet has
    \* none, so every '[' is the invalid-range error
    ELSE IF chars[i] = "[" THEN PatternError
    ELSE PatternTokens(chars, i + 1, Append(tokens, TokChar(chars[i])))

PatternNew(glob) == PatternTokens(glob, 1, <<>>)

\* Pattern::matches_from with the default MatchOptions: ti and fi are the
\* 1-based positions of the next token and the next character of the path.
RECURSIVE MatchesFrom(_, _, _, _)
MatchesFrom(tokens, ti, file, fi) ==
    IF ti > Len(tokens) THEN fi > Len(file)
    ELSE IF tokens[ti].t \in {"AnySequence", "AnyRecursiveSequence"} THEN
        \/ MatchesFrom(tokens, ti + 1, file, fi)
        \/ \E k \in fi .. Len(file) :
              /\ \/ tokens[ti].t = "AnySequence"
                 \/ IsSeparator(file[k])
              /\ MatchesFrom(tokens, ti + 1, file, k + 1)
        \* the wildcard has consumed the whole remainder of the path
        \/ MatchesFrom(tokens, ti + 1, file, Len(file) + 1)
    ELSE /\ fi <= Len(file)
         /\ \/ tokens[ti].t = "AnyChar"
            \/ tokens[ti].t = "Char" /\ tokens[ti].c = file[fi]
         /\ MatchesFrom(tokens, ti + 1, file, fi + 1)

\* Pattern::matches
PatternMatches(tokens, path) == MatchesFrom(tokens, 1, path, 1)

(***************************************************************************)
(* GitIgnoreParser                                                         *)
(***************************************************************************)
\* GitIgnoreParser::gitignore_to_glob
gitignore_to_glob(pattern) ==
    LET g1 == IF StartsWith(pattern, "/") THEN Tail(pattern)
              ELSE <<"*", "*", "/">> \o pattern
    IN  IF EndsWith(g1, "/") THEN g1 \o <<"*", "*">> ELSE g1

\* mutant: the first line whose pattern is no valid glob ends the parse
RECURSIVE PatternsOfLines_StopsAtInvalid(_)
PatternsOfLines_StopsAtInvalid(ls) ==
    IF ls = <<>> THEN <<>>
    ELSE LET line == Trim(Head(ls))
         IN  IF line = <<>> \/ StartsWith(line, "#")
             THEN PatternsOfLines_StopsAtInvalid(Tail(ls))
             ELSE LET is_negated == StartsWith(line, "!")
                      pattern_str == IF is_negated THEN Tail(line) ELSE line
                      pat == PatternNew(gitignore_to_glob(pattern_str))
                  IN  IF pat.err THEN <<>>
                      ELSE <<[pattern |-> pat.tokens, is_negated |-> is_negated]>>
                              \o PatternsOfLines_StopsAtInvalid(Tail(ls))

\* the rules of a sequence of lines, in line order
RECURSIVE PatternsOfLines(_)
PatternsOfLines(ls) ==
    IF ls = <<>> THEN <<>>
    ELSE LET line == Trim(Head(ls))
             rest == PatternsOfLines(Tail(ls))
         IN  IF line = <<>> \/ StartsWith(line, "#") THEN rest
             ELSE LET is_negated == StartsWith(line, "!")
                      pattern_str == IF is_negated THEN Tail(line) ELSE line
                      pat == PatternNew(gitignore_to_glob(pattern_str))
                  IN  IF pat.err THEN rest
                      ELSE <<[pattern |-> pat.tokens, is_negated |-> is_negated]>> \o rest

\* A file that may be absent: [exists, text]
NoFile == [exists |-> FALSE, text |-> <<>>]
TextFile(t) == [exists |-> TRUE, text |-> t]

\* Option<&str>
None == [some |-> FALSE, val |-> <<>>]
Some(v) == [some |-> TRUE, val |-> v]

\* GitIgnoreParser::load_patterns: no file gives no rules
load_patterns(file) ==
    IF ~file.exists THEN <<>> ELSE PatternsOfLines(Lines(file.text))

\* String::replace('\\', "/")
ReplaceBackslash(s) == [i \in DOMAIN s |-> IF s[i] = "\\" THEN "/" ELSE s[i]]

\* mutant: the first matching rule decides
RECURSIVE IgnoredFold_FirstMatch(_, _, _)
IgnoredFold_FirstMatch(rules, rel_path_str, is_ignored) ==
    IF rules = <<>> THEN is_ignored
    ELSE IF PatternMatches(Head(rules).pattern, rel_path_str)
         THEN ~Head(rules).is_negated
         ELSE IgnoredFold_FirstMatch(Tail(rules), rel_path_str, is_ignored)

\* GitIgnoreParser::is_ignored on a repository-relative path: the loop over
\* the rules in order, the last matching rule decides
RECURSIVE IgnoredFold(_, _, _)
IgnoredFold(rules, rel_path_str, is_ignored) ==
    IF rules = <<>> THEN is_ignored
    ELSE IgnoredFold(Tail(rules), rel_path_str,
            IF PatternMatches(Head(rules).pattern, rel_path_str)
            THEN ~Head(rules).is_negated ELSE is_ignored)

parser_is_ignored(rules, rel_path) ==
    IgnoredFold(rules, ReplaceBackslash(rel_path), FALSE)

\* mutant: the pattern is appended without closing an unfinished last line
add_pattern_NoNewline(file, pattern, comment) ==
    LET c0 == IF file.exists THEN file.text ELSE <<>>
        ls == Lines(c0)
    IN  IF \E i \in DOMAIN ls : Trim(ls[i]) = pattern
        THEN [written |-> FALSE, file |-> file]
        ELSE LET c2 == IF comment.some
                       THEN c0 \o <<"#", " ">> \o comment.val \o <<NL>>
                       ELSE c0
             IN  [written |-> TRUE, file |-> TextFile(c2 \o pattern \o <<NL>>)]

\* GitIgnoreParser::add_pattern: the new content of the ignore file, and
\* whether a write (and reload) takes place
add_pattern(file, pattern, comment) ==
    LET c0 == IF file.exists THEN file.text ELSE <<>>
        ls == Lines(c0)
    IN  IF \E i \in DOMAIN ls : Trim(ls[i]) = pattern
        THEN [written |-> FALSE, file |-> file]
        ELSE LET c1 == IF c0 # <<>> /\ ~EndsWith(c0, NL) THEN Append(c0, NL) ELSE c0
                 c2 == IF comment.some
                       THEN c1 \o <<"#", " ">> \o comment.val \o <<NL>>
                       ELSE c1
             IN  [written |-> TRUE, file |-> TextFile(c2 \o pattern \o <<NL>>)]

(***************************************************************************)
(* The tree                                                                *)
(***************************************************************************)
RootDir == <<>>
SubDir == <<"s">>
Dirs == {RootDir, SubDir}

\* the version-control directory, and the predicate the walks of
\* find_large_files and get_all_managed_files pass to filter_entry
GitDir == <<".git">>
AllDirs == Dirs \cup {GitDir}
\* mutant: the walk prunes nothing
filter_entry_Nothing(d) == TRUE

filter_entry(d) == ~(Len(d) >= 1 /\ d[1] = ".git")

BinName == <<"a", ".", "b", "i", "n">>
GitignoreName == <<".", "g", "i", "t", "i", "g", "n", "o", "r", "e">>
WoilahName == <<".", "w", "o", "i", "l", "a", "h">>
ConfigName == <<".", "w", "o", "i", "l", "a", "h", "-", "c", "o", "n", "f", "i", "g", ".", "j", "s", "o", "n">>

PathOf(d, n) == [dir |-> d, name |-> n]

\* payload files of the modelled tree
RegularPaths == {PathOf(RootDir, BinName), PathOf(SubDir, BinName)}
GitignorePath == PathOf(RootDir, GitignoreName)
AllPaths == RegularPaths \cup {GitignorePath}

\* Path::strip_prefix(repo_path) as text with '/' separators
RelPath(p) == IF p.dir = RootDir THEN p.name ELSE p.dir \o <<"/">> \o p.name

MB == 1024 * 1024

(***************************************************************************)
(* State                                                                   *)
(***************************************************************************)
VARIABLES
    fs,            \* payload files: [RegularPaths -> [exists, size, content]]
    gitignore,     \* the root ignore file: [exists, text]
    has_git,       \* the repository root has a .git directory
    woilah,        \* per-directory metadata store: [Dirs -> [exists, map]]
    repo_config,   \* RepoConfig.settings
    drive,         \* the remote object store: uploaded objects, in upload order
    pc,            \* position of the running command
    cmd,           \* the command of the current (or last) run
    patterns,      \* Ditrive.gitignore_parser: [some, rules]
    large_files,   \* process_new_files: candidates not yet finished
    metadata,      \* process_new_files: result of the upload of the current file
    missing,       \* sync_missing_files: records not yet downloaded
    log,           \* history: the calls of the current (or last) run
    result,        \* history: how the last run ended
    answers,       \* history: what the operator typed for each path
    start,         \* history: stores, ignore file and candidates at the start of the run
    pull_start,    \* history: stores and local files at the start of the pull phase
    stable,        \* history: the last run was a push that ended without error, tree untouched since
    env_steps,     \* history: number of changes the user made to the tree
    arg,           \* evaluation of a pure function: its arguments
    ret            \* evaluation of a pure function: its result

vars == <<fs, gitignore, has_git, woilah, repo_config, drive, pc, cmd, patterns,
          large_files, metadata, missing, log, result, answers, start,
          pull_start, stable, env_steps, arg, ret>>

eval_vars == <<arg, ret>>

tree_vars == <<fs, gitignore, has_git, woilah, repo_config, drive>>

\* bounds of the model
MaxUploads == 2
MaxEnvSteps == 1

(***************************************************************************)
(* Files                                                                   *)
(***************************************************************************)
AbsentFile == [exists |-> FALSE, size |-> 0, content |-> <<>>]

\* the file at a path of the tree, the ignore file included
FileAt(p) ==
    IF p = GitignorePath
    THEN [exists |-> gitignore.exists, size |-> Len(gitignore.text), content |-> gitignore.text]
    ELSE fs[p]

\* Path::exists
PathExists(p) == FileAt(p).exists

\* drive::calculate_file_hash: a digest of the content
calculate_file_hash(content) == <<"sha256">> \o content

\* FileMetadata with every field defaulted
DefaultMetadata == [id |-> <<>>, hash |-> <<>>, size |-> 0, uploaded_at |-> 0]

EmptyMap == [n \in {} |-> DefaultMetadata]

(***************************************************************************)
(* serde_json values and the serde form of FileMetadata                    *)
(***************************************************************************)
NoFields == [k \in {} |-> DefaultMetadata]

\* serde_json::Value: a string, a number, null, or an object whose members
\* are strings, numbers or null
JString(s) == [kind |-> "string", str |-> s, num |-> 0, fields |-> NoFields]
JNumber(n) == [kind |-> "number", str |-> <<>>, num |-> n, fields |-> NoFields]
JNull == [kind |-> "null", str |-> <<>>, num |-> 0, fields |-> NoFields]
JObject(f) == [kind |-> "object", str |-> <<>>, num |-> 0, fields |-> f]

\* the members FileMetadata is made of, from #[derive(Serialize, Deserialize)]
MetadataFields == {"id", "hash", "size", "uploaded_at"}

\* mutant: a record is written in the old shape, the remote id alone
to_json_IdOnly(md) == JString(md.id)

\* Serialize for FileMetadata, as serde_json::to_string_pretty writes it
to_json(md) ==
    JObject([id |-> JString(md.id), hash |-> JString(md.hash),
             size |-> JNumber(md.size), uploaded_at |-> JNumber(md.uploaded_at)])

\* serde_json::from_value::<FileMetadata>: an object that has the four
\* members with a string for id and hash, an unsigned integer for size and
\* an integer for uploaded_at; members of other names are skipped
from_value(value) ==
    IF /\ value.kind = "object"
       /\ MetadataFields \subseteq DOMAIN value.fields
       /\ value.fields["id"].kind = "string"
       /\ value.fields["hash"].kind = "string"
       /\ value.fields["size"].kind = "number"
       /\ value.fields["size"].num >= 0
       /\ value.fields["uploaded_at"].kind = "number"
    THEN [ok |-> TRUE,
          val |-> [id |-> value.fields["id"].str, hash |-> value.fields["hash"].str,
                   size |-> value.fields["size"].num,
                   uploaded_at |-> value.fields["uploaded_at"].num]]
    ELSE [ok |-> FALSE, val |-> DefaultMetadata]

\* a .woilah file: parses tells whether its text is a JSON object, map
\* gives the value of each of its members
NoStore == [exists |-> FALSE, parses |-> TRUE, map |-> EmptyMap]

(***************************************************************************)
(* WoilahTracker                                                           *)
(***************************************************************************)
\* mutant: a bare string is not a record
metadata_of_value_StructuredOnly(value) ==
    IF from_value(value).ok THEN from_value(value).val ELSE DefaultMetadata

\* the loop body of read_woilah_file: the record of one member
metadata_of_value(value) ==
    IF value.kind = "string"
    THEN [id |-> value.str, hash |-> <<>>, size |-> 0, uploaded_at |-> 0]
    ELSE IF from_value(value).ok THEN from_value(value).val ELSE DefaultMetadata

\* WoilahTracker::read_woilah_file: the mapping it returns
read_woilah_file(stores, folder_path) ==
    IF ~stores[folder_path].exists THEN EmptyMap
    ELSE IF ~stores[folder_path].parses THEN EmptyMap
    ELSE [n \in DOMAIN stores[folder_path].map |->
             metadata_of_value(stores[folder_path].map[n])]

\* WoilahTracker::read_woilah_file: whether it raises a warning
read_woilah_warns(stores, folder_path) ==
    stores[folder_path].exists /\ ~stores[folder_path].parses

\* mutant: the write keeps the members of the file that the mapping lacks
write_woilah_file_Merging(stores, folder_path, mappings) ==
    [stores EXCEPT ![folder_path] =
        [exists |-> TRUE, parses |-> TRUE,
         map |-> [n \in DOMAIN stores[folder_path].map \cup DOMAIN mappings |->
                     IF n \in DOMAIN mappings THEN to_json(mappings[n])
                     ELSE stores[folder_path].map[n]]]]

\* mutant: the stores of all directories are one file
write_woilah_file_OneStore(stores, folder_path, mappings) ==
    [d \in DOMAIN stores |->
        [exists |-> TRUE, parses |-> TRUE,
         map |-> [n \in DOMAIN mappings |-> to_json(mappings[n])]]]

\* WoilahTracker::write_woilah_file
write_woilah_file(stores, folder_path, mappings) ==
    [stores EXCEPT ![folder_path] =
        [exists |-> TRUE, parses |-> TRUE,
         map |-> [n \in DOMAIN mappings |-> to_json(mappings[n])]]]

\* mutant: the mapping is written to the store of the repository root
add_file_mapping_AtRoot(stores, folder_path, filename, md) ==
    LET mappings == read_woilah_file(stores, RootDir)
        inserted == [n \in DOMAIN mappings \cup {filename} |->
                        IF n = filename THEN md ELSE mappings[n]]
    IN  write_woilah_file(stores, RootDir, inserted)

\* mutant: a filename that has a record keeps it
add_file_mapping_KeepsOld(stores, folder_path, filename, md) ==
    LET mappings == read_woilah_file(stores, folder_path)
        inserted == [n \in DOMAIN mappings \cup {filename} |->
                        IF n \in DOMAIN mappings THEN mappings[n] ELSE md]
    IN  write_woilah_file(stores, folder_path, inserted)

\* mutant: the store is written with the one mapping of the call
add_file_mapping_OnlyNew(stores, folder_path, filename, md) ==
    write_woilah_file(stores, folder_path, [n \in {filename} |-> md])

\* WoilahTracker::add_file_mapping: read, insert, write the whole mapping
add_file_mapping(stores, folder_path, filename, md) ==
    LET mappings == read_woilah_file(stores, folder_path)
        inserted == [n \in DOMAIN mappings \cup {filename} |->
                        IF n = filename THEN md ELSE mappings[n]]
    IN  write_woilah_file(stores, folder_path, inserted)

\* mutant: the mapping is written back whether or not it had the filename
remove_file_mapping_AlwaysWrites(stores, folder_path, filename) ==
    LET mappings == read_woilah_file(stores, folder_path)
    IN  write_woilah_file(stores, folder_path,
                          [n \in DOMAIN mappings \ {filename} |-> mappings[n]])

\* mutant: the filename is taken out of the copy and the copy is dropped
remove_file_mapping_NoWrite(stores, folder_path, filename) == stores

\* WoilahTracker::remove_file_mapping: the store is written only when the
\* mapping read from it has the filename
remove_file_mapping(stores, folder_path, filename) ==
    LET mappings == read_woilah_file(stores, folder_path)
    IN  IF filename \in DOMAIN mappings
        THEN write_woilah_file(stores, folder_path,
                               [n \in DOMAIN mappings \ {filename} |-> mappings[n]])
        ELSE stores

\* WoilahTracker::get_file_info
get_file_info(stores, folder_path, filename) ==
    LET mappings == read_woilah_file(stores, folder_path)
    IN  IF filename \in DOMAIN mappings
        THEN [some |-> TRUE, val |-> mappings[filename]]
        ELSE [some |-> FALSE, val |-> DefaultMetadata]

\* mutant: a file whose content hash differs from its record is not managed
is_managed_AndFresh(stores, file_path) ==
    LET info == get_file_info(stores, file_path.dir, file_path.name)
    IN  info.some /\ info.val.hash = calculate_file_hash(FileAt(file_path).content)

\* mutant: a file is managed as soon as the remote store holds an object
\* for it
is_managed_WhenUploaded(stores, file_path) ==
    \E i \in DOMAIN drive : drive[i].path = file_path

\* WoilahTracker::is_managed
is_managed(stores, file_path) ==
    get_file_info(stores, file_path.dir, file_path.name).some

\* WoilahTracker::file_needs_update
\* mutant: a file without a record needs no update
file_needs_update_TrackedOnly(stores, file_path, file) ==
    LET info == get_file_info(stores, file_path.dir, file_path.name)
    IN  IF info.some /\ info.val.hash # <<>>
        THEN IF ~file.exists THEN [ok |-> FALSE, val |-> FALSE]
             ELSE [ok |-> TRUE, val |-> calculate_file_hash(file.content) # info.val.hash]
        ELSE [ok |-> TRUE, val |-> info.some]

\* WoilahTracker::file_needs_update on a path whose local file is file: the
\* hash is computed only for a record with a hash, and computing it fails
\* when the file cannot be opened
file_needs_update(stores, file_path, file) ==
    LET info == get_file_info(stores, file_path.dir, file_path.name)
    IN  IF info.some /\ info.val.hash # <<>>
        THEN IF ~file.exists THEN [ok |-> FALSE, val |-> FALSE]
             ELSE [ok |-> TRUE, val |-> calculate_file_hash(file.content) # info.val.hash]
        ELSE [ok |-> TRUE, val |-> TRUE]

\* mutant: the walk does not leave out the version-control directory
ManagedPairs_Unfiltered(stores) ==
    {[path |-> PathOf(d, n), metadata |-> read_woilah_file(stores, d)[n]] :
        <<d, n>> \in {dn \in AllDirs \X {BinName, GitignoreName} :
                        dn[2] \in DOMAIN read_woilah_file(stores, dn[1])}}

\* the (path, record) pairs of every store of the tree
ManagedPairs(stores) ==
    {[path |-> PathOf(d, n), metadata |-> read_woilah_file(stores, d)[n]] :
        <<d, n>> \in {dn \in {e \in AllDirs : filter_entry(e)} \X {BinName, GitignoreName} :
                        dn[2] \in DOMAIN read_woilah_file(stores, dn[1])}}

(***************************************************************************)
(* Orchestrator: pure parts                                                *)
(***************************************************************************)
\* A u64 is kept as four digits in base 1024 * 1024, the lowest first, the
\* highest below 2^4: t[1] + t[2] * 2^20 + t[3] * 2^40 + t[4] * 2^60.
U64(n) == <<n, 0, 0, 0>>

\* u64 * 1024 * 1024 overflows: the product does not fit 64 bits
mul_overflows(t) == t[4] # 0 \/ t[3] >= 16

\* u64 * 1024 * 1024 as the machine computes it without overflow checks:
\* the digits move up by one and the product is cut to 64 bits
wrapping_mul(t) == <<0, t[1], t[2], t[3] % 16>>

\* RepoConfig::large_file_threshold_bytes, in a build without overflow
\* checks; a build with overflow checks panics when mul_overflows
large_file_threshold_bytes(config) == wrapping_mul(config.large_file_threshold_mb)

\* m.len() > threshold, for the lengths of the model, all below 2^31
len_exceeds(len, t) ==
    t[4] = 0 /\ t[3] = 0 /\ t[2] < 2048 /\ len > t[2] * (1024 * 1024) + t[1]

\* Ditrive::is_large_file
is_large_file(config, file) ==
    IF file.exists
    THEN len_exceeds(file.size, large_file_threshold_bytes(config))
    ELSE FALSE

\* str::ends_with(&str)
EndsWithStr(s, suffix) ==
    /\ Len(suffix) <= Len(s)
    /\ SubSeq(s, Len(s) - Len(suffix) + 1, Len(s)) = suffix

\* mutant: in a git repository the ignore-file rules decide alone
is_ignored_EngineDecides(parser, config, path) ==
    IF parser.some THEN parser_is_ignored(parser.rules, RelPath(path))
    ELSE \E i \in DOMAIN config.additional_ignore_patterns :
            LET pattern == config.additional_ignore_patterns[i]
            IN  IF StartsWith(pattern, "*")
                THEN EndsWithStr(path.name, Tail(pattern))
                ELSE path.name = pattern

\* Ditrive::is_ignored: the ignore-file rules, then the additional patterns
\* of the configuration, matched against the file name
is_ignored(parser, config, path) ==
    \/ parser.some /\ parser_is_ignored(parser.rules, RelPath(path))
    \/ \E i \in DOMAIN config.additional_ignore_patterns :
          LET pattern == config.additional_ignore_patterns[i]
          IN  IF StartsWith(pattern, "*")
              THEN EndsWithStr(path.name, Tail(pattern))
              ELSE path.name = pattern

\* mutant: the policy skip is taken for manage
handle_ignored_large_file_SkipManages(handle_ignored, input) ==
    IF handle_ignored \in {"skip", "manage"} THEN [action |-> "manage", asked |-> FALSE]
    ELSE IF Trim(input) = <<"1">> THEN [action |-> "manage", asked |-> TRUE]
    ELSE [action |-> "skip", asked |-> TRUE]

\* mutant: the input is compared without trimming
handle_ignored_large_file_NoTrim(handle_ignored, input) ==
    IF handle_ignored = "skip" THEN [action |-> "skip", asked |-> FALSE]
    ELSE IF handle_ignored = "manage" THEN [action |-> "manage", asked |-> FALSE]
    ELSE IF input = <<"1">> THEN [action |-> "manage", asked |-> TRUE]
    ELSE [action |-> "skip", asked |-> TRUE]

\* Ditrive::handle_ignored_large_file: the action, and whether the operator
\* is asked; input is the line read from the terminal
handle_ignored_large_file(handle_ignored, input) ==
    IF handle_ignored = "skip" THEN [action |-> "skip", asked |-> FALSE]
    ELSE IF handle_ignored = "manage" THEN [action |-> "manage", asked |-> FALSE]
    ELSE IF Trim(input) = <<"1">> THEN [action |-> "manage", asked |-> TRUE]
    ELSE [action |-> "skip", asked |-> TRUE]

\* the permutations of a finite set, as sequences
RECURSIVE Perms(_)
Perms(S) ==
    IF S = {} THEN {<<>>}
    ELSE UNION {{<<x>> \o t : t \in Perms(S \ {x})} : x \in S}

IsPrefix(a, b) == Len(a) <= Len(b) /\ SubSeq(b, 1, Len(a)) = a

\* Orders in which a depth-first walk can yield the entries of a set: the
\* entries of a directory are not interrupted by entries outside of it.
WalkOrders(S) ==
    {s \in Perms(S) :
        \A i, j, k \in DOMAIN s :
            (i < j /\ j < k /\ s[i].dir = s[k].dir)
                => IsPrefix(s[i].dir, s[j].dir)}

DirOfPair(m) == m.path.dir

\* the files the walk of find_large_files visits: payload files, the
\* ignore file, the metadata stores and the repository configuration
WalkedFiles(files, gi, stores) ==
    {[path |-> p, file |-> files[p]] : p \in {q \in RegularPaths : files[q].exists}}
    \cup (IF gi.exists
          THEN {[path |-> GitignorePath,
                 file |-> [exists |-> TRUE, size |-> Len(gi.text), content |-> gi.text]]}
          ELSE {})
    \cup {[path |-> PathOf(d, WoilahName),
           file |-> [exists |-> TRUE,
                     size |-> 2 + Cardinality(DOMAIN stores[d].map),
                     content |-> <<>>]] : d \in {e \in AllDirs : filter_entry(e) /\ stores[e].exists}}
    \cup {[path |-> PathOf(RootDir, ConfigName),
           file |-> [exists |-> TRUE, size |-> 2, content |-> <<>>]]}

\* Ditrive::find_large_files: the set of candidates
find_large_files(config, files, gi, stores) ==
    {w.path : w \in {v \in WalkedFiles(files, gi, stores) :
                        /\ v.path.name # WoilahName
                        /\ v.path.name # ConfigName
                        /\ is_large_file(config, v.file)}}

\* mutant: the filter keeps the records whose local path exists
missing_files_Existing(managed_files) ==
    SelectSeq(managed_files, LAMBDA m : PathExists(m.path))

\* mutant: every missing record is taken twice
missing_files_Twice(managed_files) ==
    SelectSeq(managed_files, LAMBDA m : ~PathExists(m.path))
        \o SelectSeq(managed_files, LAMBDA m : ~PathExists(m.path))

\* sync_missing_files: the tracked records whose local path is absent
missing_files(managed_files) ==
    SelectSeq(managed_files, LAMBDA m : ~PathExists(m.path))

(***************************************************************************)
(* History helpers                                                         *)
(***************************************************************************)
NoPath == PathOf(<<>>, <<>>)
Event(op, path, ok, id) == [op |-> op, path |-> path, ok |-> ok, id |-> id]

Inputs == {<<"1", NL>>, <<"2", NL>>}
NoAnswer == <<"?">>
NoAnswers == [p \in AllPaths |-> NoAnswer]

NoSnapshot == [taken |-> FALSE, stores |-> [d \in AllDirs |-> NoStore], gitignore |-> NoFile,
               candidates |-> {}, exists |-> {}, stable |-> FALSE]

(***************************************************************************)
(* Initial states                                                          *)
(***************************************************************************)
SmallFile == [exists |-> TRUE, size |-> 1, content |-> <<"v">>]
BigFile == [exists |-> TRUE, size |-> MB + 1, content |-> <<"v">>]

\* "/a.bin\n": a rule anchored to the root
AnchoredIgnore == TextFile(<<"/">> \o BinName \o <<NL>>)
\* " a.bin": a rule for any depth, padded, without a final newline
PaddedIgnore == TextFile(<<" ">> \o BinName)

StarBin == <<"*", ".", "b", "i", "n">>
Marker == <<"M">>

NoParser == [some |-> FALSE, rules |-> <<>>]

Init ==
    /\ fs \in [RegularPaths -> {AbsentFile, SmallFile, BigFile}]
    /\ fs[PathOf(RootDir, BinName)] # SmallFile
    /\ fs[PathOf(SubDir, BinName)] # AbsentFile
    /\ gitignore \in {NoFile, AnchoredIgnore, PaddedIgnore}
    /\ has_git \in BOOLEAN
    /\ ~has_git => gitignore = NoFile
    /\ woilah = [d \in AllDirs |-> NoStore]
    /\ repo_config \in [large_file_threshold_mb : {U64(0), U64(1)},
                        handle_ignored_large_files : {"skip", "manage", "ask"},
                        additional_ignore_patterns : {<<>>, <<StarBin>>},
                        managed_files_marker : {Marker}]
    /\ has_git => repo_config.additional_ignore_patterns = <<>>
    /\ drive = <<>>
    /\ pc = "idle"
    /\ cmd = "none"
    /\ patterns = NoParser
    /\ large_files = <<>>
    /\ metadata = DefaultMetadata
    /\ missing = <<>>
    /\ log = <<>>
    /\ result = "none"
    /\ answers = NoAnswers
    /\ start = NoSnapshot
    /\ pull_start = NoSnapshot
    /\ stable = FALSE
    /\ env_steps = 0
    /\ arg = <<>>
    /\ ret = <<>>

(***************************************************************************)
(* Runs                                                                    *)
(***************************************************************************)
ExistingPaths == {p \in AllPaths : PathExists(p)}

\* the end of a run: the command returns res to main (or the process is
\* killed), the memory of the process is gone
Finish(res) ==
    /\ pc' = "done"
    /\ result' = res
    /\ stable' = (res = "ok" /\ cmd = "push")
    /\ patterns' = NoParser
    /\ large_files' = <<>>
    /\ metadata' = DefaultMetadata
    /\ missing' = <<>>

\* main: Ditrive::new, then the method of the command
StartRun(c) ==
    /\ UNCHANGED eval_vars
    /\ pc = "idle"
    /\ cmd' = c
    /\ patterns' = IF has_git THEN [some |-> TRUE, rules |-> load_patterns(gitignore)]
                   ELSE NoParser
    /\ pc' = IF c = "pull" THEN "pull_begin" ELSE "push_begin"
    /\ log' = <<>>
    /\ result' = "running"
    /\ start' = [taken |-> TRUE, stores |-> woilah, gitignore |-> gitignore, candidates |-> {},
                 exists |-> ExistingPaths, stable |-> stable /\ c = "push"]
    /\ pull_start' = NoSnapshot
    /\ stable' = FALSE
    \* the operator is held to the earlier answers only in a push that
    \* directly follows a push that ended without error
    /\ answers' = IF stable /\ c = "push" THEN answers ELSE NoAnswers
    /\ UNCHANGED <<tree_vars, large_files, metadata, missing, env_steps>>

\* mutant: sync goes on to sync_missing_files whatever process_new_files returns
PushReturns_AlwaysPull(res) ==
    IF cmd = "sync"
    THEN /\ pc' = "pull_begin"
         /\ large_files' = <<>>
         /\ metadata' = DefaultMetadata
         /\ UNCHANGED <<patterns, missing, result, stable>>
    ELSE Finish(res)

\* process_new_files returns res: sync goes on to sync_missing_files only
\* when res is Ok
PushReturns(res) ==
    IF res = "ok" /\ cmd = "sync"
    THEN /\ pc' = "pull_begin"
         /\ large_files' = <<>>
         /\ metadata' = DefaultMetadata
         /\ UNCHANGED <<patterns, missing, result, stable>>
    ELSE Finish(res)

\* process_new_files up to the loop: find_large_files, return when empty
ProcessNewFilesBegin ==
    /\ UNCHANGED eval_vars
    /\ pc = "push_begin"
    /\ LET found == find_large_files(repo_config, fs, gitignore, woilah)
       IN  /\ start' = [start EXCEPT !.candidates = found]
           /\ IF found = {}
              THEN PushReturns("ok")
              ELSE /\ \E order \in WalkOrders(found) : large_files' = order
                   /\ pc' = "check"
                   /\ UNCHANGED <<patterns, metadata, missing, result, stable>>
    /\ UNCHANGED <<tree_vars, cmd, log, answers, pull_start, env_steps>>

\* the head of the loop of process_new_files for the next candidate
ExamineCandidate ==
    /\ UNCHANGED eval_vars
    /\ pc = "check"
    /\ large_files # <<>>
    /\ LET file_path == Head(large_files)
       IN  IF is_managed(woilah, file_path)
           THEN /\ log' = Append(log, Event("managed", file_path, TRUE, <<>>))
                /\ large_files' = Tail(large_files)
                /\ UNCHANGED <<pc, answers>>
           ELSE IF is_ignored(patterns, repo_config, file_path)
           THEN \E input \in (IF answers[file_path] = NoAnswer THEN Inputs
                              ELSE {answers[file_path]}) :
                  LET h == handle_ignored_large_file(
                               repo_config.handle_ignored_large_files, input)
                      asked == IF h.asked
                               THEN <<Event("prompt", file_path, TRUE, <<>>)>> ELSE <<>>
                  IN  /\ answers' = IF h.asked THEN [answers EXCEPT ![file_path] = input]
                                    ELSE answers
                      /\ IF h.action = "skip"
                         THEN /\ log' = log \o asked \o <<Event("skip", file_path, TRUE, <<>>)>>
                              /\ large_files' = Tail(large_files)
                              /\ UNCHANGED pc
                         ELSE /\ log' = log \o asked
                              /\ pc' = "upload"
                              /\ UNCHANGED large_files
           ELSE /\ pc' = "upload"
                /\ UNCHANGED <<log, large_files, answers>>
    /\ UNCHANGED <<tree_vars, cmd, patterns, metadata, missing, result, start,
                   pull_start, stable, env_steps>>

\* the loop of process_new_files has no candidate left
PushLoopEnd ==
    /\ UNCHANGED eval_vars
    /\ pc = "check"
    /\ large_files = <<>>
    /\ PushReturns("ok")
    /\ UNCHANGED <<tree_vars, cmd, log, answers, start, pull_start, env_steps>>

\* mutant: a failed upload is not returned as an error
UploadFile_NoErrorCheck ==
    /\ UNCHANGED eval_vars
    /\ pc = "upload"
    /\ LET file_path == Head(large_files)
           file == FileAt(file_path)
       IN  \E ok \in BOOLEAN :
             IF ok
             THEN /\ file.exists
                  /\ Len(drive) < MaxUploads
                  /\ drive' = Append(drive, [path |-> file_path, size |-> file.size,
                                             content |-> file.content])
                  /\ metadata' = [id |-> <<"id", Len(drive) + 1>>,
                                  hash |-> calculate_file_hash(file.content),
                                  size |-> file.size,
                                  uploaded_at |-> Len(drive) + 1]
                  /\ log' = Append(log, Event("upload", file_path, TRUE, <<"id", Len(drive) + 1>>))
                  /\ pc' = "record"
                  /\ UNCHANGED <<patterns, large_files, missing, result, stable>>
             ELSE /\ log' = Append(log, Event("upload", file_path, FALSE, <<>>))
                  /\ metadata' = DefaultMetadata
                  /\ pc' = "record"
                  /\ UNCHANGED <<drive, patterns, large_files, missing, result, stable>>
    /\ UNCHANGED <<fs, gitignore, has_git, woilah, repo_config, cmd, answers, start,
                   pull_start, env_steps>>

\* DriveManager::upload_file for the current candidate
UploadFile ==
    /\ UNCHANGED eval_vars
    /\ pc = "upload"
    /\ LET file_path == Head(large_files)
           file == FileAt(file_path)
       IN  \E ok \in BOOLEAN :
             IF ok
             THEN /\ file.exists
                  /\ Len(drive) < MaxUploads
                  /\ drive' = Append(drive, [path |-> file_path, size |-> file.size,
                                             content |-> file.content])
                  /\ metadata' = [id |-> <<"id", Len(drive) + 1>>,
                                  hash |-> calculate_file_hash(file.content),
                                  size |-> file.size,
                                  uploaded_at |-> Len(drive) + 1]
                  /\ log' = Append(log, Event("upload", file_path, TRUE, <<"id", Len(drive) + 1>>))
                  /\ pc' = "record"
                  /\ UNCHANGED <<patterns, large_files, missing, result, stable>>
             ELSE /\ log' = Append(log, Event("upload", file_path, FALSE, <<>>))
                  /\ PushReturns("error")
                  /\ UNCHANGED drive
    /\ UNCHANGED <<fs, gitignore, has_git, woilah, repo_config, cmd, answers, start,
                   pull_start, env_steps>>

\* mutant: a failed record write is not returned as an error
RecordMapping_ContinuesOnError ==
    /\ UNCHANGED eval_vars
    /\ pc = "record"
    /\ LET file_path == Head(large_files)
       IN  \E ok \in BOOLEAN :
             IF ok
             THEN /\ woilah' = add_file_mapping(woilah, file_path.dir, file_path.name, metadata)
                  /\ log' = Append(log, Event("record", file_path, TRUE, metadata.id))
                  /\ pc' = "ignore"
                  /\ UNCHANGED <<patterns, large_files, metadata, missing, result, stable>>
             ELSE /\ log' = Append(log, Event("record", file_path, FALSE, metadata.id))
                  /\ pc' = "ignore"
                  /\ UNCHANGED <<woilah, patterns, large_files, metadata, missing, result, stable>>
    /\ UNCHANGED <<fs, gitignore, has_git, repo_config, drive, cmd, answers, start,
                   pull_start, env_steps>>

\* process_new_files: tracker.add_file_mapping for the uploaded file
RecordMapping ==
    /\ UNCHANGED eval_vars
    /\ pc = "record"
    /\ LET file_path == Head(large_files)
       IN  \E ok \in BOOLEAN :
             IF ok
             THEN /\ woilah' = add_file_mapping(woilah, file_path.dir, file_path.name, metadata)
                  /\ log' = Append(log, Event("record", file_path, TRUE, metadata.id))
                  /\ pc' = "ignore"
                  /\ UNCHANGED <<patterns, large_files, metadata, missing, result, stable>>
             ELSE /\ log' = Append(log, Event("record", file_path, FALSE, metadata.id))
                  /\ PushReturns("error")
                  /\ UNCHANGED woilah
    /\ UNCHANGED <<fs, gitignore, has_git, repo_config, drive, cmd, answers, start,
                   pull_start, env_steps>>

\* process_new_files: parser.add_pattern for the recorded file, when the
\* repository has a parser
AppendIgnoreRule ==
    /\ UNCHANGED eval_vars
    /\ pc = "ignore"
    /\ LET file_path == Head(large_files)
           rel_path == ReplaceBackslash(RelPath(file_path))
       IN  IF ~patterns.some
           THEN /\ large_files' = Tail(large_files)
                /\ metadata' = DefaultMetadata
                /\ pc' = "check"
                /\ UNCHANGED <<gitignore, patterns, log, missing, result, stable>>
           ELSE \E ok \in BOOLEAN :
                  IF ok
                  THEN LET r == add_pattern(gitignore, rel_path,
                                            Some(repo_config.managed_files_marker))
                       IN  /\ gitignore' = r.file
                           /\ patterns' = IF r.written
                                          THEN [some |-> TRUE, rules |-> load_patterns(r.file)]
                                          ELSE patterns
                           /\ log' = Append(log, Event("ignore", file_path, TRUE, <<>>))
                           /\ large_files' = Tail(large_files)
                           /\ metadata' = DefaultMetadata
                           /\ pc' = "check"
                           /\ UNCHANGED <<missing, result, stable>>
                  ELSE /\ log' = Append(log, Event("ignore", file_path, FALSE, <<>>))
                       /\ PushReturns("error")
                       /\ UNCHANGED gitignore
    /\ UNCHANGED <<fs, has_git, woilah, repo_config, drive, cmd, answers, start,
                   pull_start, env_steps>>

\* WoilahTracker::get_all_managed_files: the records of every store, the
\* records of one store together, in an order the walk and the hash map fix
get_all_managed_files(stores) ==
    {s \in Perms(ManagedPairs(stores)) :
        \A i, j, k \in DOMAIN s :
            (i < j /\ j < k /\ DirOfPair(s[i]) = DirOfPair(s[k]))
                => DirOfPair(s[j]) = DirOfPair(s[i])}

\* sync_missing_files up to the loop: enumerate, filter, return when empty
SyncMissingBegin ==
    /\ UNCHANGED eval_vars
    /\ pc = "pull_begin"
    /\ pull_start' = [NoSnapshot EXCEPT !.taken = TRUE, !.stores = woilah,
                                       !.exists = ExistingPaths]
    /\ log' = Append(log, Event("enumerate", NoPath, TRUE, <<>>))
    /\ \E managed_files \in get_all_managed_files(woilah) :
          LET todo == missing_files(managed_files)
          IN  IF todo = <<>>
              THEN Finish("ok")
              ELSE /\ missing' = todo
                   /\ pc' = "download"
                   /\ UNCHANGED <<patterns, large_files, metadata, result, stable>>
    /\ UNCHANGED <<tree_vars, cmd, answers, start, env_steps>>

\* the object a remote id names, if any
RemoteObject(id) ==
    IF Len(id) = 2 /\ id[2] \in DOMAIN drive
    THEN [some |-> TRUE, val |-> drive[id[2]]]
    ELSE [some |-> FALSE, val |-> [path |-> NoPath, size |-> 0, content |-> <<>>]]

\* mutant: a failed download is logged and the loop goes on
DownloadFile_ContinuesOnError ==
    /\ UNCHANGED eval_vars
    /\ pc = "download"
    /\ LET m == Head(missing)
           obj == RemoteObject(m.metadata.id)
       IN  \E ok \in BOOLEAN :
             IF ok
             THEN /\ obj.some
                  /\ IF m.path = GitignorePath
                     THEN /\ gitignore' = TextFile(obj.val.content)
                          /\ UNCHANGED fs
                     ELSE /\ fs' = [fs EXCEPT ![m.path] =
                                      [exists |-> TRUE, size |-> obj.val.size,
                                       content |-> obj.val.content]]
                          /\ UNCHANGED gitignore
                  /\ log' = Append(log, Event("download", m.path, TRUE, m.metadata.id))
                  /\ IF Tail(missing) = <<>>
                     THEN Finish("ok")
                     ELSE /\ missing' = Tail(missing)
                          /\ UNCHANGED <<pc, patterns, large_files, metadata, result, stable>>
             ELSE /\ log' = Append(log, Event("download", m.path, FALSE, m.metadata.id))
                  /\ IF Tail(missing) = <<>>
                     THEN Finish("ok")
                     ELSE /\ missing' = Tail(missing)
                          /\ UNCHANGED <<pc, patterns, large_files, metadata, result, stable>>
                  /\ UNCHANGED <<fs, gitignore>>
    /\ UNCHANGED <<has_git, woilah, repo_config, drive, cmd, answers, start,
                   pull_start, env_steps>>

\* DriveManager::download_file for the next missing record, and the end of
\* the loop of sync_missing_files after the last one
DownloadFile ==
    /\ UNCHANGED eval_vars
    /\ pc = "download"
    /\ LET m == Head(missing)
           obj == RemoteObject(m.metadata.id)
       IN  \E ok \in BOOLEAN :
             IF ok
             THEN /\ obj.some
                  /\ IF m.path = GitignorePath
                     THEN /\ gitignore' = TextFile(obj.val.content)
                          /\ UNCHANGED fs
                     ELSE /\ fs' = [fs EXCEPT ![m.path] =
                                      [exists |-> TRUE, size |-> obj.val.size,
                                       content |-> obj.val.content]]
                          /\ UNCHANGED gitignore
                  /\ log' = Append(log, Event("download", m.path, TRUE, m.metadata.id))
                  /\ IF Tail(missing) = <<>>
                     THEN Finish("ok")
                     ELSE /\ missing' = Tail(missing)
                          /\ UNCHANGED <<pc, patterns, large_files, metadata, result, stable>>
             ELSE /\ log' = Append(log, Event("download", m.path, FALSE, m.metadata.id))
                  /\ Finish("error")
                  /\ UNCHANGED <<fs, gitignore>>
    /\ UNCHANGED <<has_git, woilah, repo_config, drive, cmd, answers, start,
                   pull_start, env_steps>>

\* the process is killed (the ambient interrupt) at any point of a run:
\* nothing returns to main, what is left is the tree and the remote store
ProcessKilled ==
    /\ pc \notin {"idle", "done"}
    /\ pc' = "idle"
    /\ cmd' = "none"
    /\ patterns' = NoParser
    /\ large_files' = <<>>
    /\ metadata' = DefaultMetadata
    /\ missing' = <<>>
    /\ log' = <<>>
    /\ result' = "none"
    /\ start' = NoSnapshot
    /\ pull_start' = NoSnapshot
    /\ stable' = FALSE
    /\ answers' = NoAnswers
    /\ UNCHANGED <<tree_vars, env_steps>>

Interrupt ==
    /\ UNCHANGED eval_vars
    /\ ProcessKilled

\* main: the process exits; what is left is the tree and the remote store
Exit ==
    /\ UNCHANGED eval_vars
    /\ pc = "done"
    /\ pc' = "idle"
    /\ cmd' = "none"
    /\ log' = <<>>
    /\ result' = "none"
    /\ start' = NoSnapshot
    /\ pull_start' = NoSnapshot
    /\ answers' = IF stable THEN answers ELSE NoAnswers
    /\ UNCHANGED <<tree_vars, patterns, large_files, metadata, missing, stable, env_steps>>

(***************************************************************************)
(* The user changes the tree between runs                                  *)
(***************************************************************************)
DeleteFile(p) ==
    /\ UNCHANGED eval_vars
    /\ pc = "idle"
    /\ env_steps < MaxEnvSteps
    /\ PathExists(p)
    /\ IF p = GitignorePath
       THEN gitignore' = NoFile /\ UNCHANGED fs
       ELSE fs' = [fs EXCEPT ![p] = AbsentFile] /\ UNCHANGED gitignore
    /\ stable' = FALSE
    /\ env_steps' = env_steps + 1
    /\ answers' = NoAnswers
    /\ UNCHANGED <<has_git, woilah, repo_config, drive, pc, cmd, patterns, large_files,
                   metadata, missing, log, result, start, pull_start>>

ModifyFile(p) ==
    /\ UNCHANGED eval_vars
    /\ pc = "idle"
    /\ env_steps < MaxEnvSteps
    /\ fs[p].exists
    /\ fs' = [fs EXCEPT ![p] = [exists |-> TRUE, size |-> @.size + 1,
                                content |-> Append(@.content, "w")]]
    /\ stable' = FALSE
    /\ env_steps' = env_steps + 1
    /\ answers' = NoAnswers
    /\ UNCHANGED <<gitignore, has_git, woilah, repo_config, drive, pc, cmd, patterns,
                   large_files, metadata, missing, log, result, start, pull_start>>

Next ==
    \/ \E c \in {"push", "pull", "sync"} : StartRun(c)
    \/ ProcessNewFilesBegin
    \/ ExamineCandidate
    \/ PushLoopEnd
    \/ UploadFile
    \/ RecordMapping
    \/ AppendIgnoreRule
    \/ SyncMissingBegin
    \/ DownloadFile
    \/ Interrupt
    \/ Exit
    \/ \E p \in AllPaths : DeleteFile(p)
    \/ \E p \in RegularPaths : ModifyFile(p)

Spec == Init /\ [][Next]_vars

(***************************************************************************)
(* Properties of push reconciliation                                       *)
(***************************************************************************)
InPush == cmd \in {"push", "sync"} /\ pc \notin {"idle"}

HasRecord(stores, p) == p.name \in DOMAIN read_woilah_file(stores, p.dir)

\* the lines of the ignore file, surrounding white space aside
IgnoreLines(file) ==
    IF file.exists THEN {Trim(Lines(file.text)[i]) : i \in DOMAIN Lines(file.text)} ELSE {}

EventsOf(op, p) == {k \in DOMAIN log : log[k].op = op /\ log[k].path = p}

\* C1: in a push, the record write of a file is attempted right after the
\* upload of that file returned success and only then, and the ignore-rule
\* append of a file is attempted right after the record write of that file
\* returned success and only then: upload, then record, then ignore rule.
C1_UploadRecordIgnoreOrder ==
    \A k \in DOMAIN log :
        /\ log[k].op = "record" =>
              /\ k > 1
              /\ log[k - 1].op = "upload"
              /\ log[k - 1].path = log[k].path
              /\ log[k - 1].ok
        /\ log[k].op = "ignore" =>
              /\ k > 1
              /\ log[k - 1].op = "record"
              /\ log[k - 1].path = log[k].path
              /\ log[k - 1].ok

\* a file has gone through upload, record and ignore rule, and another
\* file's upload has failed in the same run
C1_Witness ==
    /\ \E k \in DOMAIN log : log[k].op = "ignore" /\ log[k].ok
    /\ \E k \in DOMAIN log : log[k].op = "upload" /\ ~log[k].ok

\* C2: every record of every store names an object the remote store holds
\* for that very path, that is, the id of an upload of that file that
\* returned success; this holds in every state, also after failed uploads
\* and interruptions.
C2_RecordOnlyAfterUpload ==
    \A m \in ManagedPairs(woilah) :
        /\ Len(m.metadata.id) = 2
        /\ m.metadata.id[2] \in DOMAIN drive
        /\ drive[m.metadata.id[2]].path = m.path

\* a record exists, an upload of another file has failed, and the remote
\* store holds an object that no record names (an upload not followed by
\* its record)
C2_Witness ==
    /\ ManagedPairs(woilah) # {}
    /\ \E k \in DOMAIN log : log[k].op = "upload" /\ ~log[k].ok
    /\ \E i \in DOMAIN drive :
          \A m \in ManagedPairs(woilah) : m.metadata.id # <<"id", i>>

\* C3: a push that starts right after a push that ended without error,
\* with no change of the tree in between, with the same policy and the same
\* operator answers, makes no upload call.
C3_RerunUploadsNothing ==
    (start.taken /\ start.stable) =>
        \A k \in DOMAIN log : log[k].op # "upload"

SelectedForManagement ==
    {p \in start.candidates :
        ~HasRecord(start.stores, p) /\ EventsOf("skip", p) = {}}

PushEndedOk == pc = "done" /\ cmd = "push" /\ result = "ok"

\* C5 as stated: after a push that ended without error every candidate
\* that was not managed and not skipped has had exactly one upload call,
\* has a record in the store of its parent directory under its file name,
\* and has its repository-relative path as a line of the root ignore file.
C5_AsStated ==
    PushEndedOk =>
        \A p \in SelectedForManagement :
            /\ Cardinality(EventsOf("upload", p)) = 1
            /\ HasRecord(woilah, p)
            /\ RelPath(p) \in IgnoreLines(gitignore)

\* C5 amended: the same, the line of the ignore file only when the
\* repository root has a .git directory.
C5_ManagedAfterPush ==
    PushEndedOk =>
        \A p \in SelectedForManagement :
            /\ Cardinality(EventsOf("upload", p)) = 1
            /\ HasRecord(woilah, p)
            /\ has_git => RelPath(p) \in IgnoreLines(gitignore)

\* a push has ended without error after managing a file of a subdirectory
\* of a git repository
C5_Witness ==
    /\ PushEndedOk
    /\ has_git
    /\ PathOf(SubDir, BinName) \in SelectedForManagement

\* the parser a run would build from the ignore file as it was when the
\* run started
ParserAtStart ==
    IF has_git THEN [some |-> TRUE, rules |-> load_patterns(start.gitignore)]
    ELSE NoParser

\* C6: under policy skip, a candidate that was ignored and not managed when
\* the push started is left untouched throughout the run: no upload call
\* for it, no record for it, and no line for it in the ignore file that was
\* not there before.
C6_SkipLeavesIgnoredUntouched ==
    (InPush /\ start.taken /\ repo_config.handle_ignored_large_files = "skip") =>
        \A p \in start.candidates :
            (~HasRecord(start.stores, p) /\ is_ignored(ParserAtStart, repo_config, p)) =>
                /\ EventsOf("upload", p) = {}
                /\ ~HasRecord(woilah, p)
                /\ RelPath(p) \in IgnoreLines(gitignore)
                      => RelPath(p) \in IgnoreLines(start.gitignore)

\* under policy skip a push has ended without error: it has skipped an
\* ignored candidate and has managed another candidate
C6_Witness ==
    /\ PushEndedOk
    /\ repo_config.handle_ignored_large_files = "skip"
    /\ \E p \in start.candidates :
          /\ ~HasRecord(start.stores, p)
          /\ is_ignored(ParserAtStart, repo_config, p)
          /\ EventsOf("skip", p) # {}
    /\ \E q \in start.candidates : \E k \in EventsOf("ignore", q) : log[k].ok

(***************************************************************************)
(* Properties of pull reconciliation and of the full sync                  *)
(***************************************************************************)
\* the tracked records whose local path was absent when the pull started
MissingAtPullStart ==
    {m \in ManagedPairs(pull_start.stores) : m.path \notin pull_start.exists}

DownloadEvents == {k \in DOMAIN log : log[k].op = "download"}

\* C8: when a pull has ended without error, every tracked record whose
\* local path was absent at its start has had exactly one download call,
\* with the recorded id and the recorded path, no other download call was
\* made, and every such path exists locally.
C8_PullDownloadsMissing ==
    (pc = "done" /\ result = "ok" /\ pull_start.taken) =>
        /\ \A m \in MissingAtPullStart :
              /\ Cardinality({k \in DownloadEvents : log[k].path = m.path}) = 1
              /\ \A k \in DownloadEvents :
                    log[k].path = m.path => log[k].id = m.metadata.id /\ log[k].ok
              /\ PathExists(m.path)
        /\ \A k \in DownloadEvents :
              \E m \in MissingAtPullStart : m.path = log[k].path

\* a pull has ended without error: one tracked file was absent and has
\* been downloaded, another tracked file was present
C8_Witness ==
    /\ pc = "done" /\ result = "ok" /\ cmd = "pull"
    /\ MissingAtPullStart # {}
    /\ \E m \in ManagedPairs(pull_start.stores) : m.path \in pull_start.exists

PushOps == {"managed", "prompt", "skip", "upload", "record", "ignore"}
PullOps == {"enumerate", "download"}

\* C9: in a full sync no call of the pull phase (enumeration, download)
\* comes before a call of the push phase, the pull phase runs only when the
\* push phase has no candidate left, and after a failed upload, record
\* write or ignore-rule append no pull phase is started.
C9_PushBeforePull ==
    cmd = "sync" =>
        /\ \A i, j \in DOMAIN log :
              (i < j /\ log[i].op \in PullOps) => log[j].op \notin PushOps
        /\ pc \in {"pull_begin", "download"} => large_files = <<>>
        /\ (\E k \in DOMAIN log : log[k].op \in PushOps /\ ~log[k].ok) =>
              /\ pc \notin {"pull_begin", "download"}
              /\ \A k \in DOMAIN log : log[k].op \notin PullOps

\* a full sync has ended without error after an upload in its push phase
\* and a download in its pull phase
C9_Witness ==
    /\ pc = "done" /\ cmd = "sync" /\ result = "ok"
    /\ \E i, j \in DOMAIN log :
          /\ i < j
          /\ log[i].op = "ignore" /\ log[i].ok
          /\ log[j].op = "download" /\ log[j].ok

\* a full sync has ended with the error of a failed upload
C9_WitnessFailure ==
    /\ pc = "done" /\ cmd = "sync" /\ result = "error"
    /\ \E k \in DOMAIN log : log[k].op = "upload" /\ ~log[k].ok

(***************************************************************************)
(* Evaluation of pure functions on bounded inputs                          *)
(***************************************************************************)
\* the program at rest, with an empty tree; pc names the function to apply
AtRest(at) ==
    /\ fs = [p \in RegularPaths |-> AbsentFile]
    /\ gitignore = NoFile
    /\ has_git = FALSE
    /\ woilah = [d \in AllDirs |-> NoStore]
    /\ repo_config = [large_file_threshold_mb |-> U64(1),
                      handle_ignored_large_files |-> "ask",
                      additional_ignore_patterns |-> <<>>,
                      managed_files_marker |-> Marker]
    /\ drive = <<>>
    /\ pc = at
    /\ cmd = "none"
    /\ patterns = NoParser
    /\ large_files = <<>>
    /\ metadata = DefaultMetadata
    /\ missing = <<>>
    /\ log = <<>>
    /\ result = "none"
    /\ answers = NoAnswers
    /\ start = NoSnapshot
    /\ pull_start = NoSnapshot
    /\ stable = FALSE
    /\ env_steps = 0

program_vars == <<fs, gitignore, has_git, woilah, repo_config, drive, cmd, patterns,
                  large_files, metadata, missing, log, result, answers, start,
                  pull_start, stable, env_steps>>

\* the sequences over S of length at most n
SeqsUpTo(S, n) == UNION {[1 .. k -> S] : k \in 0 .. n}

MaxInputLen == 3
InputChars == {"1", "2", "x", " ", NL}

InitHandleIgnored ==
    /\ AtRest("eval_handle_ignored")
    /\ arg \in [handle_ignored : {"skip", "manage", "ask"},
                input : SeqsUpTo(InputChars, MaxInputLen)]
    /\ ret = [action |-> "none", asked |-> FALSE]

EvalHandleIgnored ==
    /\ pc = "eval_handle_ignored"
    /\ pc' = "evaluated"
    /\ ret' = handle_ignored_large_file(arg.handle_ignored, arg.input)
    /\ UNCHANGED <<program_vars, arg>>

SpecHandleIgnored == InitHandleIgnored /\ [][EvalHandleIgnored]_vars

NonWhite(s) == SelectSeq(s, LAMBDA c : c \notin {" ", NL})

C7_WitnessEmpty ==
    /\ pc = "evaluated"
    /\ arg.handle_ignored = "ask"
    /\ arg.input = <<>>
    /\ ret = [action |-> "skip", asked |-> TRUE]

MaxRules == 3
\* "*.l", "!i.l", "s/", "!/s/i.l" and the invalid "["
RuleLines == {<<"*", ".", "l">>, <<"!", "i", ".", "l">>, <<"s", "/">>,
              <<"!", "/", "s", "/", "i", ".", "l">>, <<"[">>}
EvalPaths == {<<"i", ".", "l">>, <<"o", ".", "l">>, <<"s", "/", "i", ".", "l">>,
              <<"s", "\\", "o", ".", "l">>, <<"a">>}

InitIsIgnored ==
    /\ AtRest("eval_is_ignored")
    /\ arg \in [lines : SeqsUpTo(RuleLines, MaxRules), path : EvalPaths]
    /\ ret = FALSE

EvalIsIgnored ==
    /\ pc = "eval_is_ignored"
    /\ pc' = "evaluated"
    /\ ret' = parser_is_ignored(PatternsOfLines(arg.lines), arg.path)
    /\ UNCHANGED <<program_vars, arg>>

SpecIsIgnored == InitIsIgnored /\ [][EvalIsIgnored]_vars

\* the rules of the evaluated lines that match the evaluated path
MatchingRules ==
    LET rules == PatternsOfLines(arg.lines)
        path == [i \in DOMAIN arg.path |-> IF arg.path[i] = "\\" THEN "/" ELSE arg.path[i]]
    IN  {i \in DOMAIN rules : PatternMatches(rules[i].pattern, path)}

LastOf(S) == CHOOSE i \in S : \A j \in S : j <= i

\* C10: is_ignored is true exactly when some rule matches the path and the
\* last matching rule, in file order, is not negated; a path no rule
\* matches is not ignored.
C10_LastMatchWins ==
    pc = "evaluated" =>
        ret = (/\ MatchingRules # {}
               /\ ~PatternsOfLines(arg.lines)[LastOf(MatchingRules)].is_negated)

\* a plain rule matches the path, a later negated rule matches it too, and
\* the path is not ignored
C10_Witness ==
    /\ pc = "evaluated"
    /\ arg.lines = <<<<"*", ".", "l">>, <<"!", "i", ".", "l">>>>
    /\ arg.path = <<"i", ".", "l">>
    /\ MatchingRules = {1, 2}
    /\ ret = FALSE

(***************************************************************************)
(* GitIgnoreParser::add_pattern on its own: one parser object, built by    *)
(* GitIgnoreParser::new, whose add_pattern is called several times while   *)
(* the ignore file can also be edited from outside (it is a file of the    *)
(* working tree). arg holds the last two of the calls and edits, each      *)
(* with the number of calls made so far.                                   *)
(***************************************************************************)
\* the variables of a run, at their values before any command
RunAtRest(at) ==
    /\ drive = <<>>
    /\ pc = at
    /\ cmd = "none"
    /\ large_files = <<>>
    /\ metadata = DefaultMetadata
    /\ missing = <<>>
    /\ log = <<>>
    /\ result = "none"
    /\ answers = NoAnswers
    /\ start = NoSnapshot
    /\ pull_start = NoSnapshot
    /\ stable = FALSE
    /\ env_steps = 0

MaxCalls == 3

\* "a", "a " (a name that ends with a space) and "b"
AddPatterns == {<<"a">>, <<"a", " ">>, <<"b">>}
AddComments == {None, Some(<<"M">>)}

\* no file, "", "a" (no final newline), " a\n" and "#\nb\n"
IgnoreContents ==
    {NoFile, TextFile(<<>>), TextFile(<<"a">>), TextFile(<<" ", "a", NL>>),
     TextFile(<<"#", NL, "b", NL>>)}

\* the number of add_pattern calls made so far
CallsSoFar == IF arg = <<>> THEN 0 ELSE arg[Len(arg)].calls

\* the history with one more entry, cut to its last two entries
Remember(h) == IF Len(arg) >= 2 THEN <<arg[Len(arg)], h>> ELSE Append(arg, h)

InitAddPattern ==
    /\ RunAtRest("parser")
    /\ fs = [p \in RegularPaths |-> AbsentFile]
    /\ has_git = TRUE
    /\ woilah = [d \in AllDirs |-> NoStore]
    /\ repo_config = [large_file_threshold_mb |-> U64(1),
                      handle_ignored_large_files |-> "ask",
                      additional_ignore_patterns |-> <<>>,
                      managed_files_marker |-> Marker]
    /\ gitignore \in IgnoreContents
    /\ patterns = [some |-> TRUE, rules |-> load_patterns(gitignore)]
    /\ arg = <<>>
    /\ ret = "none"

\* mutant: the rule set in memory is not reloaded after the write
AddPattern_NoReload ==
    /\ pc = "parser"
    /\ CallsSoFar < MaxCalls
    /\ \E pattern \in AddPatterns, comment \in AddComments, ok \in BOOLEAN :
          LET r == add_pattern(gitignore, pattern, comment)
          IN  /\ gitignore' = IF ok THEN r.file ELSE gitignore
              /\ patterns' = patterns
              /\ ret' = IF ok THEN "ok" ELSE "error"
              /\ arg' = Remember([op |-> "add_pattern", pattern |-> pattern,
                                   comment |-> comment, before |-> gitignore,
                                   rules_before |-> patterns.rules,
                                   written |-> ok /\ r.written, ok |-> ok,
                                   calls |-> CallsSoFar + 1])
    /\ UNCHANGED <<fs, has_git, woilah, repo_config, drive, pc, cmd, large_files,
                   metadata, missing, log, result, answers, start, pull_start,
                   stable, env_steps>>

\* one call of GitIgnoreParser::add_pattern: the file is rewritten and the
\* rules are reloaded unless the pattern is found; a failed read or write
\* returns the error and leaves file and rules as they are
AddPattern ==
    /\ pc = "parser"
    /\ CallsSoFar < MaxCalls
    /\ \E pattern \in AddPatterns, comment \in AddComments, ok \in BOOLEAN :
          LET r == add_pattern(gitignore, pattern, comment)
          IN  /\ gitignore' = IF ok THEN r.file ELSE gitignore
              /\ patterns' = IF ok /\ r.written
                             THEN [some |-> TRUE, rules |-> load_patterns(r.file)]
                             ELSE patterns
              /\ ret' = IF ok THEN "ok" ELSE "error"
              /\ arg' = Remember([op |-> "add_pattern", pattern |-> pattern,
                                   comment |-> comment, before |-> gitignore,
                                   rules_before |-> patterns.rules,
                                   written |-> ok /\ r.written, ok |-> ok,
                                   calls |-> CallsSoFar + 1])
    /\ UNCHANGED <<fs, has_git, woilah, repo_config, drive, pc, cmd, large_files,
                   metadata, missing, log, result, answers, start, pull_start,
                   stable, env_steps>>

\* the ignore file is edited from outside the program: the parser object
\* keeps the rules it has loaded
EditIgnoreFile ==
    /\ pc = "parser"
    /\ env_steps < MaxEnvSteps
    /\ env_steps' = env_steps + 1
    /\ \E f \in IgnoreContents \ {gitignore} :
          /\ gitignore' = f
          /\ arg' = Remember([op |-> "edit", pattern |-> <<>>, comment |-> None,
                               before |-> gitignore, rules_before |-> patterns.rules,
                               written |-> TRUE, ok |-> TRUE, calls |-> CallsSoFar])
    /\ UNCHANGED <<fs, has_git, woilah, repo_config, drive, pc, cmd, patterns,
                   large_files, metadata, missing, log, result, answers, start,
                   pull_start, stable, ret>>

NextAddPattern == AddPattern \/ EditIgnoreFile

SpecAddPattern == InitAddPattern /\ [][NextAddPattern]_vars

\* the last entry of the history is a call of add_pattern that returned Ok
AfterAddPattern ==
    /\ pc = "parser"
    /\ arg # <<>>
    /\ arg[Len(arg)].op = "add_pattern"
    /\ arg[Len(arg)].ok

\* the last two entries of the history are calls of add_pattern with the
\* same pattern that both returned Ok
AddedTwice ==
    /\ AfterAddPattern
    /\ Len(arg) >= 2
    /\ arg[Len(arg) - 1].op = "add_pattern"
    /\ arg[Len(arg) - 1].ok
    /\ arg[Len(arg) - 1].pattern = arg[Len(arg)].pattern

\* the lines of a text that hold a pattern, white space around it aside
LinesHolding(text, pattern) ==
    {i \in DOMAIN Lines(text) :
        Lines(text)[i] = pattern \/ Trim(Lines(text)[i]) = pattern}

\* C11: add_rule is idempotent: of two calls in succession with the same
\* pattern the second performs no write and leaves the file as the first
\* left it, and the pattern is then exactly one line of the file.
C11_AddRuleIdempotent ==
    AddedTwice =>
        /\ ~arg[Len(arg)].written
        /\ gitignore = arg[Len(arg)].before
        /\ Cardinality(LinesHolding(gitignore.text, arg[Len(arg)].pattern)) = 1

\* what add_pattern does guarantee: the second of two calls in succession
\* writes nothing when the pattern has no white space at its ends
C11_IdempotentWhenTrimmed ==
    (AddedTwice /\ Trim(arg[Len(arg)].pattern) = arg[Len(arg)].pattern) =>
        /\ ~arg[Len(arg)].written
        /\ gitignore = arg[Len(arg)].before

\* C12: add_rule only appends: the content before a call, with a newline
\* added when it is not empty and does not end with one, is a prefix of the
\* content after the call, so that every earlier line, rule or comment,
\* is still there, unchanged and at its place.
C12_AppendOnly ==
    AfterAddPattern =>
        LET before == arg[Len(arg)].before.text
            closed == IF before # <<>> /\ before[Len(before)] # NL
                      THEN Append(before, NL) ELSE before
        IN  /\ IsPrefix(before, gitignore.text) \/ IsPrefix(closed, gitignore.text)
            /\ IsPrefix(Lines(before), Lines(gitignore.text))
            /\ arg[Len(arg)].before.exists => gitignore.exists

\* a call has appended a comment and a rule to a file that held a comment
\* and a rule and had no final newline missing
C12_Witness ==
    /\ AfterAddPattern
    /\ arg[Len(arg)].written
    /\ arg[Len(arg)].before = TextFile(<<"#", NL, "b", NL>>)
    /\ gitignore.text = <<"#", NL, "b", NL, "#", " ", "M", NL, "a", NL>>

\* a call has appended a rule to a file whose last line had no newline
C12_WitnessNoNewline ==
    /\ AfterAddPattern
    /\ arg[Len(arg)].written
    /\ arg[Len(arg)].before = TextFile(<<"a">>)
    /\ gitignore.text = <<"a", NL, "b", NL>>

\* C13 as stated: after every call of add_rule that returns successfully
\* the rules in memory are those of the current content of the file.
C13_AsStated ==
    AfterAddPattern => patterns.rules = load_patterns(gitignore)

\* C13: after a call of add_rule that returns successfully and has written
\* the file, the rules in memory are those of the current content of the
\* file, so is_ignored answers from the added rule at once; a call that
\* finds the pattern in the file writes nothing and leaves the rules in
\* memory as they were before the call.
C13_RulesReloadedOnWrite ==
    AfterAddPattern =>
        IF arg[Len(arg)].written
        THEN /\ patterns.rules = load_patterns(gitignore)
             /\ \A p \in AddPatterns :
                   parser_is_ignored(patterns.rules, p)
                       = parser_is_ignored(load_patterns(gitignore), p)
        ELSE /\ patterns.rules = arg[Len(arg)].rules_before
             /\ gitignore = arg[Len(arg)].before

\* a call has added the rule a to an empty file and is_ignored, asked right
\* after it, reports the path a as ignored
C13_Witness ==
    /\ AfterAddPattern
    /\ arg[Len(arg)].written
    /\ arg[Len(arg)].before = TextFile(<<>>)
    /\ arg[Len(arg)].pattern = <<"a">>
    /\ ~parser_is_ignored(arg[Len(arg)].rules_before, <<"a">>)
    /\ parser_is_ignored(patterns.rules, <<"a">>)

\* a call has found its pattern in a file that was edited after the rules
\* were loaded: nothing is written and the rules in memory are not those
\* of the file
C13_WitnessStale ==
    /\ AfterAddPattern
    /\ ~arg[Len(arg)].written
    /\ patterns.rules # load_patterns(gitignore)

(***************************************************************************)
(* WoilahTracker on its own: the stores of the tree start from what a      *)
(* .woilah file can hold (written by this program, by an older version of  *)
(* it, or damaged), the operations of the tracker are applied in any       *)
(* order. arg is the last operation that writes (write, add, remove), ret  *)
(* is the last query made since, with its result.                          *)
(***************************************************************************)
TrackerNames == {BinName, GitignoreName}

\* the names the operations are called with in a directory: those of the
\* files of the modelled tree
NamesIn(d) == IF d = RootDir THEN TrackerNames ELSE {BinName}

RecordX == [id |-> <<"X">>, hash |-> calculate_file_hash(<<"v">>), size |-> 1,
            uploaded_at |-> 100]
RecordY == [id |-> <<"Y">>, hash |-> <<>>, size |-> 10, uploaded_at |-> 7]
TrackerRecords == {RecordX, RecordY}

\* the mappings handed to write_woilah_file
TrackerMappings ==
    {EmptyMap,
     [n \in {BinName} |-> RecordX],
     [n \in TrackerNames |-> IF n = BinName THEN RecordY ELSE RecordX]}

\* values of members found in a .woilah file
LegacyValue == JString(<<"L">>)
ObjNoHash == JObject([id |-> JString(<<"X">>), size |-> JNumber(1),
                      uploaded_at |-> JNumber(100)])
ObjNegSize == JObject([id |-> JString(<<"X">>), hash |-> JString(<<"h">>),
                       size |-> JNumber(-1), uploaded_at |-> JNumber(100)])
ObjSizeString == JObject([id |-> JString(<<"X">>), hash |-> JString(<<"h">>),
                          size |-> JString(<<"1">>), uploaded_at |-> JNumber(100)])
ObjExtra == JObject([id |-> JString(<<"X">>), hash |-> JString(<<"h">>),
                     size |-> JNumber(1), uploaded_at |-> JNumber(100),
                     note |-> JString(<<"n">>)])

StoreOf(m) == [exists |-> TRUE, parses |-> TRUE, map |-> m]
DamagedStore == [exists |-> TRUE, parses |-> FALSE, map |-> EmptyMap]

\* the .woilah files the root directory starts with
InitialStores ==
    {NoStore, DamagedStore,
     StoreOf([n \in {BinName} |-> LegacyValue]),
     StoreOf([n \in TrackerNames |-> IF n = BinName THEN JNumber(5) ELSE to_json(RecordX)]),
     StoreOf([n \in TrackerNames |-> IF n = BinName THEN ObjNoHash ELSE LegacyValue]),
     StoreOf([n \in {BinName} |-> ObjNegSize]),
     StoreOf([n \in {BinName} |-> ObjExtra]),
     StoreOf([n \in TrackerNames |-> IF n = BinName THEN JNull ELSE ObjSizeString])}

OtherFile == [exists |-> TRUE, size |-> 1, content |-> <<"w">>]

\* before is the mapping the operation has read from the store it writes
NoMutation ==
    [op |-> "none", dir |-> RootDir, name |-> <<>>, md |-> DefaultMetadata,
     mappings |-> EmptyMap, before |-> EmptyMap]

NoQuery ==
    [op |-> "none", dir |-> RootDir, name |-> <<>>, ok |-> TRUE, flag |-> FALSE,
     info |-> [some |-> FALSE, val |-> DefaultMetadata], mappings |-> EmptyMap,
     warned |-> FALSE, list |-> <<>>]

InitTracker ==
    /\ RunAtRest("tracker")
    /\ gitignore = NoFile
    /\ has_git = TRUE
    /\ repo_config = [large_file_threshold_mb |-> U64(1),
                      handle_ignored_large_files |-> "ask",
                      additional_ignore_patterns |-> <<>>,
                      managed_files_marker |-> Marker]
    /\ patterns = [some |-> TRUE, rules |-> <<>>]
    /\ fs \in [RegularPaths -> {AbsentFile, SmallFile, OtherFile}]
    /\ fs[PathOf(SubDir, BinName)] = SmallFile
    /\ \E root \in InitialStores :
          woilah = [d \in AllDirs |->
                      IF d = RootDir THEN root
                      ELSE IF d = GitDir
                      THEN StoreOf([n \in {BinName} |-> to_json(RecordX)])
                      ELSE NoStore]
    /\ arg = NoMutation
    /\ ret = NoQuery

tracker_rest == <<gitignore, has_git, repo_config, drive, pc, cmd, patterns, large_files,
                  metadata, missing, log, result, answers, start, pull_start, stable,
                  env_steps, fs>>

\* WoilahTracker::write_woilah_file
TrackerWrite ==
    /\ pc = "tracker"
    /\ \E d \in Dirs, m \in TrackerMappings :
          /\ DOMAIN m \subseteq NamesIn(d)
          /\ woilah' = write_woilah_file(woilah, d, m)
          /\ arg' = [NoMutation EXCEPT !.op = "write", !.dir = d, !.mappings = m]
    /\ ret' = NoQuery
    /\ UNCHANGED tracker_rest

\* WoilahTracker::add_file_mapping
TrackerAdd ==
    /\ pc = "tracker"
    /\ \E d \in Dirs, n \in TrackerNames, r \in TrackerRecords :
          /\ n \in NamesIn(d)
          /\ woilah' = add_file_mapping(woilah, d, n, r)
          /\ arg' = [NoMutation EXCEPT !.op = "add", !.dir = d, !.name = n, !.md = r,
                                       !.before = read_woilah_file(woilah, d)]
    /\ ret' = NoQuery
    /\ UNCHANGED tracker_rest

\* WoilahTracker::remove_file_mapping
TrackerRemove ==
    /\ pc = "tracker"
    /\ \E d \in Dirs, n \in TrackerNames :
          /\ n \in NamesIn(d)
          /\ woilah' = remove_file_mapping(woilah, d, n)
          /\ arg' = [NoMutation EXCEPT !.op = "remove", !.dir = d, !.name = n,
                                       !.before = read_woilah_file(woilah, d)]
    /\ ret' = NoQuery
    /\ UNCHANGED tracker_rest

\* WoilahTracker::read_woilah_file
TrackerRead ==
    /\ pc = "tracker"
    /\ \E d \in AllDirs :
          ret' = [NoQuery EXCEPT !.op = "read", !.dir = d,
                                 !.mappings = read_woilah_file(woilah, d),
                                 !.warned = read_woilah_warns(woilah, d)]
    /\ UNCHANGED <<tracker_rest, woilah, arg>>

\* WoilahTracker::get_file_info
TrackerGetFileInfo ==
    /\ pc = "tracker"
    /\ \E d \in Dirs, n \in TrackerNames :
          /\ n \in NamesIn(d)
          /\ ret' = [NoQuery EXCEPT !.op = "get_file_info", !.dir = d, !.name = n,
                                    !.info = get_file_info(woilah, d, n)]
    /\ UNCHANGED <<tracker_rest, woilah, arg>>

\* WoilahTracker::is_managed
TrackerIsManaged ==
    /\ pc = "tracker"
    /\ \E d \in Dirs, n \in TrackerNames :
          /\ n \in NamesIn(d)
          /\ ret' = [NoQuery EXCEPT !.op = "is_managed", !.dir = d, !.name = n,
                                    !.flag = is_managed(woilah, PathOf(d, n))]
    /\ UNCHANGED <<tracker_rest, woilah, arg>>

\* WoilahTracker::file_needs_update
TrackerNeedsUpdate ==
    /\ pc = "tracker"
    /\ \E p \in RegularPaths :
          LET r == file_needs_update(woilah, p, fs[p])
          IN  ret' = [NoQuery EXCEPT !.op = "needs_update", !.dir = p.dir,
                                     !.name = p.name, !.ok = r.ok, !.flag = r.val]
    /\ UNCHANGED <<tracker_rest, woilah, arg>>

\* WoilahTracker::get_all_managed_files
TrackerEnumerate ==
    /\ pc = "tracker"
    /\ \E l \in get_all_managed_files(woilah) :
          ret' = [NoQuery EXCEPT !.op = "enumerate", !.list = l]
    /\ UNCHANGED <<tracker_rest, woilah, arg>>

NextTracker ==
    \/ TrackerWrite
    \/ TrackerAdd
    \/ TrackerRemove
    \/ TrackerRead
    \/ TrackerGetFileInfo
    \/ TrackerIsManaged
    \/ TrackerNeedsUpdate
    \/ TrackerEnumerate

SpecTracker == InitTracker /\ [][NextTracker]_vars

\* the last query is op, made after the last writing operation
Queried(op) == pc = "tracker" /\ ret.op = op

\* C14: a mapping written to a directory and read back is the same
\* mapping: the same filenames, each with the same remote id, content hash,
\* size and upload time; a record added for a filename is the record
\* get_file_info then returns for it.
C14_RecordRoundTrip ==
    /\ (Queried("read") /\ arg.op = "write" /\ ret.dir = arg.dir) =>
          /\ DOMAIN ret.mappings = DOMAIN arg.mappings
          /\ \A n \in DOMAIN arg.mappings :
                /\ ret.mappings[n].id = arg.mappings[n].id
                /\ ret.mappings[n].hash = arg.mappings[n].hash
                /\ ret.mappings[n].size = arg.mappings[n].size
                /\ ret.mappings[n].uploaded_at = arg.mappings[n].uploaded_at
    /\ (Queried("get_file_info") /\ arg.op = "add"
            /\ ret.dir = arg.dir /\ ret.name = arg.name) =>
          ret.info = [some |-> TRUE, val |-> arg.md]

\* a mapping of two records, one with a hash and one without, has been
\* written over a store and read back
C14_Witness ==
    /\ Queried("read")
    /\ arg.op = "write"
    /\ ret.dir = arg.dir
    /\ Cardinality(DOMAIN arg.mappings) = 2
    /\ ret.mappings = arg.mappings

\* a record has been added to a store that held a value of the old shape
\* for the filename, and get_file_info returns the record
C14_WitnessAdd ==
    /\ Queried("get_file_info")
    /\ arg.op = "add"
    /\ ret.dir = arg.dir /\ ret.name = arg.name
    /\ arg.name \in DOMAIN arg.before
    /\ arg.before[arg.name].id = <<"L">>
    /\ ret.info.val = RecordX

\* the filenames whose value in the store of d is a bare string
LegacyNames(d) ==
    IF woilah[d].exists /\ woilah[d].parses
    THEN {n \in DOMAIN woilah[d].map : woilah[d].map[n].kind = "string"}
    ELSE {}

\* C15: a member whose value is a bare string s is read as the record with
\* remote id s, empty hash, size 0 and upload time 0; its file is managed
\* and needs_update is true for it.
C15_LegacyRecord ==
    /\ Queried("read") =>
          \A n \in LegacyNames(ret.dir) :
              /\ n \in DOMAIN ret.mappings
              /\ ret.mappings[n] = [id |-> woilah[ret.dir].map[n].str, hash |-> <<>>,
                                    size |-> 0, uploaded_at |-> 0]
    /\ (Queried("is_managed") /\ ret.name \in LegacyNames(ret.dir)) => ret.flag
    /\ (Queried("needs_update") /\ ret.name \in LegacyNames(ret.dir)) =>
          ret.ok /\ ret.flag

\* a store whose value for a.bin is the bare string L has been read
C15_Witness ==
    /\ Queried("read")
    /\ BinName \in LegacyNames(ret.dir)
    /\ ret.mappings[BinName].id = <<"L">>

\* needs_update has been asked for a file whose record is a bare string
C15_WitnessNeedsUpdate ==
    /\ Queried("needs_update")
    /\ ret.name \in LegacyNames(ret.dir)
    /\ ret.flag

\* the values that are neither a bare string nor a structured record
MalformedValues == {JNumber(5), JNull, ObjNoHash, ObjNegSize, ObjSizeString}

\* C16: reading a store does not fail on a malformed record: a member
\* whose value is neither a bare string nor a well-formed record is
\* returned as the all-default record and a warning is raised; every other
\* member is returned with its own values.
C16_MalformedRecordDefaults ==
    (Queried("read") /\ woilah[ret.dir].exists /\ woilah[ret.dir].parses) =>
        /\ ret.ok
        /\ DOMAIN ret.mappings = DOMAIN woilah[ret.dir].map
        /\ \A n \in DOMAIN woilah[ret.dir].map :
              LET value == woilah[ret.dir].map[n]
              IN  IF value \in MalformedValues
                  THEN ret.mappings[n] = DefaultMetadata /\ ret.warned
                  ELSE IF value.kind = "string"
                  THEN ret.mappings[n].id = value.str
                  ELSE /\ ret.mappings[n].id = value.fields["id"].str
                       /\ ret.mappings[n].hash = value.fields["hash"].str
                       /\ ret.mappings[n].size = value.fields["size"].num
                       /\ ret.mappings[n].uploaded_at = value.fields["uploaded_at"].num

\* what read_woilah_file does for a malformed record: the all-default
\* record, the other members with their own values, and no warning
C16_DefaultsWithoutWarning ==
    (Queried("read") /\ woilah[ret.dir].exists /\ woilah[ret.dir].parses) =>
        /\ ret.ok
        /\ ~ret.warned
        /\ DOMAIN ret.mappings = DOMAIN woilah[ret.dir].map
        /\ \A n \in DOMAIN woilah[ret.dir].map :
              woilah[ret.dir].map[n] \in MalformedValues
                  => ret.mappings[n] = DefaultMetadata

\* the entries of an enumeration that name a path
EntriesFor(list, p) == {i \in DOMAIN list : list[i].path = p}

\* C17: a store holds at most one record per filename: an enumeration
\* names no path twice, and add for a filename that has a record puts the
\* new record in its place: the filenames of the store are those it had
\* and the added one, and the filename reads as the added record.
C17_OneRecordPerName ==
    /\ Queried("enumerate") =>
          \A i, j \in DOMAIN ret.list :
              ret.list[i].path = ret.list[j].path => i = j
    /\ (Queried("read") /\ arg.op = "add" /\ ret.dir = arg.dir) =>
          /\ DOMAIN ret.mappings = DOMAIN arg.before \cup {arg.name}
          /\ ret.mappings[arg.name] = arg.md
    /\ (Queried("enumerate") /\ arg.op = "add") =>
          /\ Cardinality(EntriesFor(ret.list, PathOf(arg.dir, arg.name))) = 1
          /\ \A i \in EntriesFor(ret.list, PathOf(arg.dir, arg.name)) :
                ret.list[i].metadata = arg.md

\* a record has been added for a filename that had another record, and
\* the enumeration made after it has one entry for the file, the new one
C17_Witness ==
    /\ Queried("enumerate")
    /\ arg.op = "add"
    /\ arg.name \in DOMAIN arg.before
    /\ arg.before[arg.name] = RecordX
    /\ arg.md = RecordY
    /\ \E i \in DOMAIN ret.list :
          ret.list[i] = [path |-> PathOf(arg.dir, arg.name), metadata |-> RecordY]

C18_WitnessChanged ==
    /\ Queried("needs_update")
    /\ ret.ok /\ ret.flag
    /\ is_managed(woilah, PathOf(ret.dir, ret.name))
    /\ read_woilah_file(woilah, ret.dir)[ret.name].hash # <<>>
    /\ fs[PathOf(ret.dir, ret.name)] = OtherFile

\* the path has no record
C18_WitnessUntracked ==
    /\ Queried("needs_update")
    /\ ret.ok /\ ret.flag
    /\ ~is_managed(woilah, PathOf(ret.dir, ret.name))

\* C19: enumerate_all returns one pair for every record of every store
\* outside the version-control directory, with the path joined from the
\* directory and the filename and the record as read, and nothing else,
\* whether the local file exists or not; it is computed from the stores as
\* they are at the call, so it shows every add and remove made before it.
C19_EnumerateAll ==
    Queried("enumerate") =>
        /\ \A d \in AllDirs, n \in TrackerNames :
              LET present == /\ d # GitDir
                             /\ woilah[d].exists
                             /\ woilah[d].parses
                             /\ n \in DOMAIN woilah[d].map
                  entries == EntriesFor(ret.list, PathOf(d, n))
              IN  IF present
                  THEN /\ Cardinality(entries) = 1
                       /\ \A i \in entries :
                             ret.list[i].metadata = read_woilah_file(woilah, d)[n]
                  ELSE entries = {}
        /\ \A i \in DOMAIN ret.list :
              ret.list[i].path.dir \in AllDirs /\ ret.list[i].path.name \in TrackerNames

\* an enumeration made after an add to the sub-directory: it has the
\* records of two directories, one of a file that does not exist locally,
\* and none of the store inside the version-control directory
C19_Witness ==
    /\ Queried("enumerate")
    /\ arg.op = "add"
    /\ arg.dir = SubDir
    /\ woilah[GitDir].exists
    /\ Len(ret.list) >= 2
    /\ \E i \in DOMAIN ret.list :
          ret.list[i].path = PathOf(RootDir, BinName) /\ ~fs[ret.list[i].path].exists
    /\ \E i \in DOMAIN ret.list : ret.list[i].path = PathOf(SubDir, BinName)

\* an enumeration made after a remove no longer has the removed record
C19_WitnessRemove ==
    /\ Queried("enumerate")
    /\ arg.op = "remove"
    /\ arg.name \in DOMAIN arg.before
    /\ EntriesFor(ret.list, PathOf(arg.dir, arg.name)) = {}

(***************************************************************************)
(* Ditrive::is_large_file on its own: one file of the tree, under every    *)
(* threshold of a set that has small values and values from 2^44 MB on,    *)
(* where the product with 1024 * 1024 does not fit 64 bits. arg tells      *)
(* whether the build checks arithmetic overflow (a debug build does, a     *)
(* release build does not).                                                *)
(***************************************************************************)
\* 0, 1 and 10 MB, 2^44 MB, 2^44 + 1 MB and u64::MAX MB
ThresholdInputs ==
    {U64(0), U64(1), U64(10), <<0, 0, 16, 0>>, <<1, 0, 16, 0>>,
     <<MB - 1, MB - 1, MB - 1, 15>>}

\* the lengths 0, 1, and one below, at and one above 1 MB and 10 MB
LengthInputs == {0, 1, MB - 1, MB, MB + 1, 10 * MB - 1, 10 * MB, 10 * MB + 1}

ClassifiedPath == PathOf(RootDir, BinName)

InitIsLargeFile ==
    /\ RunAtRest("eval_is_large_file")
    /\ gitignore = NoFile
    /\ has_git = TRUE
    /\ woilah = [d \in AllDirs |-> NoStore]
    /\ patterns = [some |-> TRUE, rules |-> <<>>]
    /\ \E t \in ThresholdInputs :
          repo_config = [large_file_threshold_mb |-> t,
                         handle_ignored_large_files |-> "ask",
                         additional_ignore_patterns |-> <<>>,
                         managed_files_marker |-> Marker]
    /\ \E f \in {AbsentFile} \cup {[exists |-> TRUE, size |-> n, content |-> <<"v">>] :
                                      n \in LengthInputs} :
          fs = [p \in RegularPaths |-> IF p = ClassifiedPath THEN f ELSE AbsentFile]
    /\ arg \in [overflow_checks : BOOLEAN]
    /\ ret = [panicked |-> FALSE, candidate |-> FALSE]

EvalIsLargeFile ==
    /\ pc = "eval_is_large_file"
    /\ pc' = "evaluated"
    /\ ret' = IF arg.overflow_checks /\ mul_overflows(repo_config.large_file_threshold_mb)
              THEN [panicked |-> TRUE, candidate |-> FALSE]
              ELSE [panicked |-> FALSE,
                    candidate |-> is_large_file(repo_config, fs[ClassifiedPath])]
    /\ UNCHANGED <<program_vars, arg>>

SpecIsLargeFile == InitIsLargeFile /\ [][EvalIsLargeFile]_vars

\* a length of the model is greater than t MB taken as t * 1024 * 1024
\* bytes, computed without a limit of width
ExceedsMegabytes(len, t) ==
    t[4] = 0 /\ t[3] = 0 /\ t[2] = 0 /\ t[1] < 2048 /\ len > t[1] * 1024 * 1024

\* C20: a file is a candidate exactly when its size in bytes is strictly
\* greater than the threshold in MB times 1024 times 1024: a file of the
\* threshold size is not a candidate, a file one byte larger is.
C20_ClassifierBoundary ==
    pc = "evaluated" =>
        /\ ~ret.panicked
        /\ ret.candidate =
              (/\ fs[ClassifiedPath].exists
               /\ ExceedsMegabytes(fs[ClassifiedPath].size,
                                   repo_config.large_file_threshold_mb))

\* what is_large_file guarantees: the boundary is as stated for every
\* threshold below 2^44 MB
C20_BoundaryBelowOverflow ==
    (pc = "evaluated" /\ ~mul_overflows(repo_config.large_file_threshold_mb)) =>
        /\ ~ret.panicked
        /\ ret.candidate =
              (/\ fs[ClassifiedPath].exists
               /\ ExceedsMegabytes(fs[ClassifiedPath].size,
                                   repo_config.large_file_threshold_mb))

\* under 10 MB a file of 10 MB is not a candidate
C20_WitnessAt ==
    /\ pc = "evaluated"
    /\ repo_config.large_file_threshold_mb = U64(10)
    /\ fs[ClassifiedPath].size = 10 * MB
    /\ ~ret.candidate

\* under 10 MB a file of 10 MB and one byte is a candidate
C20_WitnessAbove ==
    /\ pc = "evaluated"
    /\ repo_config.large_file_threshold_mb = U64(10)
    /\ fs[ClassifiedPath].size = 10 * MB + 1
    /\ ret.candidate

(***************************************************************************)
(* The walk of find_large_files, entry by entry                            *)
(***************************************************************************)
ObjectsDir == <<".git", "objects">>
WalkDirs == AllDirs \cup {ObjectsDir}
LinkName == <<"l">>

\* the items the iterator of the walk yields: a directory, a regular file,
\* a symbolic link (not followed), or the error of reading a directory
DirEntry(d) == [kind |-> "dir", dir |-> d, name |-> <<>>, file |-> AbsentFile]
FileEntry(d, n, f) == [kind |-> "file", dir |-> d, name |-> n, file |-> f]
LinkEntry(d, n) == [kind |-> "symlink", dir |-> d, name |-> n, file |-> AbsentFile]
ErrorItem(d) == [kind |-> "error", dir |-> d, name |-> <<>>, file |-> AbsentFile]

\* the entries of the directory d of a tree
Children(tree, d) ==
    {DirEntry(c) : c \in {e \in tree.dirs : Len(e) = Len(d) + 1 /\ IsPrefix(d, e)}}
    \cup {e \in tree.entries : e.dir = d}

\* the trees of the walk: every directory holds a file above the
\* threshold, stores and configuration files above the threshold lie in
\* several directories, a link whose target is gone lies in the
\* subdirectory, and at most one directory cannot be read
WalkTrees ==
    {[dirs |-> WalkDirs,
      entries |-> {FileEntry(RootDir, BinName, a),
                   FileEntry(RootDir, WoilahName, BigFile),
                   FileEntry(RootDir, ConfigName, BigFile),
                   FileEntry(SubDir, BinName, b),
                   FileEntry(SubDir, ConfigName, BigFile),
                   LinkEntry(SubDir, LinkName),
                   FileEntry(GitDir, BinName, BigFile),
                   FileEntry(GitDir, WoilahName, BigFile),
                   FileEntry(ObjectsDir, BinName, BigFile)},
      unreadable |-> u] :
        a \in {SmallFile, BigFile}, b \in {BigFile, AbsentFile},
        u \in {{}, {RootDir}, {SubDir}, {GitDir}}}

NoWalk == [pending |-> <<>>, large_files |-> <<>>, result |-> "none", failed |-> <<>>]

InitWalk ==
    /\ RunAtRest("walk_begin")
    /\ gitignore = NoFile
    /\ has_git = TRUE
    /\ woilah = [d \in AllDirs |-> NoStore]
    /\ patterns = [some |-> TRUE, rules |-> <<>>]
    /\ repo_config = [large_file_threshold_mb |-> U64(1),
                      handle_ignored_large_files |-> "ask",
                      additional_ignore_patterns |-> <<>>,
                      managed_files_marker |-> Marker]
    /\ fs = [p \in RegularPaths |-> AbsentFile]
    /\ arg \in WalkTrees
    /\ ret = NoWalk

\* WalkDir::new(repo_path).into_iter(): the first item is the root
WalkBegin ==
    /\ pc = "walk_begin"
    /\ pc' = "walk"
    /\ ret' = [NoWalk EXCEPT !.pending = <<DirEntry(RootDir)>>, !.result = "walking"]
    /\ UNCHANGED <<program_vars, arg>>

\* one item of the iterator and the loop body of find_large_files for it
WalkNext ==
    /\ pc = "walk"
    /\ ret.pending # <<>>
    /\ LET e == Head(ret.pending)
           rest == Tail(ret.pending)
       IN  IF e.kind = "error"
           THEN \* let entry = entry?;
                /\ ret' = [NoWalk EXCEPT !.result = "error", !.failed = e.dir]
                /\ pc' = "walked"
           ELSE IF ~filter_entry(e.dir)
           THEN \* the predicate rejects the entry: a directory is not entered
                /\ ret' = [ret EXCEPT !.pending = rest]
                /\ UNCHANGED pc
           ELSE IF e.kind = "dir"
           THEN /\ IF e.dir \in arg.unreadable
                   THEN ret' = [ret EXCEPT !.pending = <<ErrorItem(e.dir)>> \o rest]
                   ELSE \E order \in Perms(Children(arg, e.dir)) :
                           ret' = [ret EXCEPT !.pending = order \o rest]
                /\ UNCHANGED pc
           ELSE IF /\ e.kind = "file"
                   /\ e.name # WoilahName
                   /\ e.name # ConfigName
                   /\ is_large_file(repo_config, e.file)
           THEN /\ ret' = [ret EXCEPT !.pending = rest,
                                      !.large_files = Append(@, PathOf(e.dir, e.name))]
                /\ UNCHANGED pc
           ELSE /\ ret' = [ret EXCEPT !.pending = rest]
                /\ UNCHANGED pc
    /\ UNCHANGED <<program_vars, arg>>

\* the iterator is exhausted: Ok(large_files)
WalkEnd ==
    /\ pc = "walk"
    /\ ret.pending = <<>>
    /\ pc' = "walked"
    /\ ret' = [ret EXCEPT !.result = "ok"]
    /\ UNCHANGED <<program_vars, arg>>

NextWalk == WalkBegin \/ WalkNext \/ WalkEnd

SpecWalk == InitWalk /\ [][NextWalk]_vars

\* C21: the classifier never returns a path inside .git or one of its
\* descendants, and never a file named .woilah or .woilah-config.json, in
\* any directory and whatever the sizes of these files.
C21_ExcludedNeverCandidates ==
    pc \in {"walk", "walked"} =>
        \A i \in DOMAIN ret.large_files :
            /\ ~IsPrefix(GitDir, ret.large_files[i].dir)
            /\ ret.large_files[i].name \notin {WoilahName, ConfigName}

\* a walk over a tree with large files inside .git and large stores and
\* configuration files returns the two payload files only
C21_Witness ==
    /\ pc = "walked"
    /\ ret.result = "ok"
    /\ Len(ret.large_files) = 2
    /\ \E e \in arg.entries : e.dir = ObjectsDir /\ is_large_file(repo_config, e.file)
    /\ \E e \in arg.entries : e.dir = SubDir /\ e.name = ConfigName
                                 /\ is_large_file(repo_config, e.file)

\* the walk yields an error for a directory other than the root
ErrorBelowRoot ==
    \E d \in arg.unreadable : d # RootDir /\ filter_entry(d)

\* the candidates among the entries that can be read
ReadableCandidates ==
    {PathOf(e.dir, e.name) :
        e \in {x \in arg.entries : /\ x.kind = "file"
                                   /\ filter_entry(x.dir)
                                   /\ x.dir \notin arg.unreadable
                                   /\ x.name \notin {WoilahName, ConfigName}
                                   /\ is_large_file(repo_config, x.file)}}

\* C22: an error of the walk on one entry other than the root does not
\* abort the walk: the walk ends without error and returns the candidates
\* among the entries that can be read; only an error on the root is fatal.
C22_EntryErrorDoesNotAbort ==
    (pc = "walked" /\ ErrorBelowRoot) =>
        /\ ret.result = "ok"
        /\ {ret.large_files[i] : i \in DOMAIN ret.large_files} = ReadableCandidates

\* what the walk does: an unreadable directory outside .git ends the walk
\* with the error and no candidate; a link whose target is gone, a file
\* whose metadata cannot be read and an unreadable .git do not
C22_WalkErrorAborts ==
    pc = "walked" =>
        /\ (ret.result = "error") = (\E d \in arg.unreadable : filter_entry(d))
        /\ ret.result = "error" => ret.large_files = <<>>
        /\ ret.result = "ok" =>
              {ret.large_files[i] : i \in DOMAIN ret.large_files} = ReadableCandidates

(***************************************************************************)
(* Failures and interruptions of a run                                     *)
(***************************************************************************)
\* the events of the log that are failed upload or download calls
FailedCalls == {k \in DOMAIN log : log[k].op \in {"upload", "download"} /\ ~log[k].ok}

\* C23: when an upload or a download call fails, the error is returned to
\* the caller and the phase stops there: the failed call is the last event
\* of the run and the run ends with the error. Every record and every
\* ignore line committed for earlier files, and every file downloaded
\* earlier, stays; the file whose upload failed gets no record and no
\* ignore line, the file whose download failed stays absent and the
\* records are as the pull found them.
C23_FailureStopsPhase ==
    \A k \in FailedCalls :
        /\ k = Len(log)
        /\ pc = "done"
        /\ result = "error"
        /\ \A j \in 1 .. k - 1 :
              /\ (log[j].op = "record" /\ log[j].ok) =>
                    /\ HasRecord(woilah, log[j].path)
                    /\ read_woilah_file(woilah, log[j].path.dir)[log[j].path.name].id
                          = log[j].id
              /\ (log[j].op = "ignore" /\ log[j].ok) =>
                    RelPath(log[j].path) \in IgnoreLines(gitignore)
              /\ (log[j].op = "download" /\ log[j].ok) => PathExists(log[j].path)
        /\ log[k].op = "upload" =>
              /\ ~HasRecord(woilah, log[k].path)
              /\ EventsOf("record", log[k].path) = {}
              /\ EventsOf("ignore", log[k].path) = {}
              /\ RelPath(log[k].path) \in IgnoreLines(gitignore)
                    => RelPath(log[k].path) \in IgnoreLines(start.gitignore)
        /\ log[k].op = "download" =>
              /\ ~PathExists(log[k].path)
              /\ woilah = pull_start.stores

\* the upload of a file fails after another file of the same run has its
\* record and its ignore line
C23_Witness ==
    /\ pc = "done"
    /\ log # <<>>
    /\ log[Len(log)].op = "upload"
    /\ ~log[Len(log)].ok
    /\ \E j \in DOMAIN log : log[j].op = "ignore" /\ log[j].ok
                                /\ log[j].path # log[Len(log)].path

\* a download fails in a sync whose push has recorded a file
C23_WitnessDownload ==
    /\ pc = "done"
    /\ log # <<>>
    /\ log[Len(log)].op = "download"
    /\ ~log[Len(log)].ok
    /\ \E j \in DOMAIN log : log[j].op = "record" /\ log[j].ok

(***************************************************************************)
(* Runs under a policy value that is none of skip, manage, ask             *)
(***************************************************************************)
\* RepoSettings.handle_ignored_large_files is a String: the file may hold
\* any text for it
InvalidPolicies == {"never", "Skip", ""}

InitPolicy ==
    /\ fs \in [RegularPaths -> {AbsentFile, SmallFile, BigFile}]
    /\ fs[PathOf(RootDir, BinName)] # SmallFile
    /\ fs[PathOf(SubDir, BinName)] # AbsentFile
    /\ gitignore \in {AnchoredIgnore, PaddedIgnore}
    /\ has_git = TRUE
    /\ woilah = [d \in AllDirs |-> NoStore]
    /\ repo_config \in [large_file_threshold_mb : {U64(1)},
                        handle_ignored_large_files : InvalidPolicies,
                        additional_ignore_patterns : {<<>>},
                        managed_files_marker : {Marker}]
    /\ RunAtRest("idle")
    /\ patterns = NoParser
    /\ arg = <<>>
    /\ ret = <<>>

SpecPolicy == InitPolicy /\ [][Next]_vars

\* C24: a policy value other than skip, manage and ask is a fatal error
\* of configuration reported before the tree is walked: under such a value
\* no run walks the tree, and no upload, no record write and no prompt
\* happens.
C24_InvalidPolicyIsFatal ==
    repo_config.handle_ignored_large_files \notin {"skip", "manage", "ask"} =>
        /\ pc \notin {"check", "upload", "record", "ignore", "download"}
        /\ \A k \in DOMAIN log : log[k].op \notin {"prompt", "upload", "record"}

\* what the code does with such a value: it is taken as ask, every ignored
\* candidate is put to the operator and managed on the answer 1
C24_InvalidPolicyAsks ==
    \A k \in DOMAIN log :
        /\ log[k].op = "skip" => (k > 1 /\ log[k - 1] = Event("prompt", log[k].path, TRUE, <<>>))
        /\ log[k].op = "prompt" => answers[log[k].path] # NoAnswer

\* under an invalid value a file was put to the operator, uploaded and
\* recorded
C24_WitnessManaged ==
    /\ repo_config.handle_ignored_large_files = "never"
    /\ \E k \in DOMAIN log : log[k].op = "prompt"
    /\ \E k \in DOMAIN log : log[k].op = "record" /\ log[k].ok

(***************************************************************************)
(* A push is killed between the upload of a file and its record            *)
(***************************************************************************)
NoInFlight == [some |-> FALSE, in_flight |-> NoPath,
               stores |-> [d \in AllDirs |-> NoStore], uploads |-> 0]

InitInterrupt ==
    /\ fs \in [RegularPaths -> {AbsentFile, BigFile}]
    /\ fs[PathOf(SubDir, BinName)] # AbsentFile
    /\ gitignore \in {NoFile, PaddedIgnore}
    /\ has_git = TRUE
    /\ woilah = [d \in AllDirs |-> NoStore]
    /\ repo_config \in [large_file_threshold_mb : {U64(1)},
                        handle_ignored_large_files : {"skip", "manage", "ask"},
                        additional_ignore_patterns : {<<>>},
                        managed_files_marker : {Marker}]
    /\ RunAtRest("idle")
    /\ patterns = NoParser
    /\ arg = NoInFlight
    /\ ret = <<>>

\* the process is killed while the upload call of a file is under way or
\* has returned and the record of the file is not written yet; the file,
\* the stores and the number of remote objects at that point are kept
InterruptPush ==
    /\ pc \in {"upload", "record"}
    /\ ProcessKilled
    /\ arg' = [some |-> TRUE, in_flight |-> Head(large_files), stores |-> woilah,
               uploads |-> Len(drive)]
    /\ UNCHANGED ret

NextInterrupt ==
    \/ StartRun("push")
    \/ ProcessNewFilesBegin
    \/ ExamineCandidate
    \/ PushLoopEnd
    \/ UploadFile
    \/ RecordMapping
    \/ AppendIgnoreRule
    \/ InterruptPush
    \/ Exit

SpecInterrupt == InitInterrupt /\ [][NextInterrupt]_vars

\* the records the stores held when the push was killed are still there
\* and name objects of the remote store
EarlierRecordsValid ==
    \A m \in ManagedPairs(arg.stores) :
        /\ m \in ManagedPairs(woilah)
        /\ Len(m.metadata.id) = 2
        /\ m.metadata.id[2] \in DOMAIN drive
        /\ drive[m.metadata.id[2]].path = m.path

\* the file in flight has a record that names an upload made after the kill
RecordedAfresh ==
    /\ HasRecord(woilah, arg.in_flight)
    /\ LET id == read_woilah_file(woilah, arg.in_flight.dir)[arg.in_flight.name].id
       IN  /\ Len(id) = 2
           /\ id[2] > arg.uploads
           /\ id[2] \in DOMAIN drive
           /\ drive[id[2]].path = arg.in_flight

\* C25: when a push is killed after the upload of a file has started and
\* before its record is written, the records written earlier remain valid,
\* the file in flight is not managed, and a push run after that, the tree
\* unchanged, that ends without error has uploaded the file again and
\* recorded it.
C25_AsStated ==
    arg.some =>
        /\ EarlierRecordsValid
        /\ ~HasRecord(arg.stores, arg.in_flight)
        /\ (pc = "done" /\ result = "ok") => RecordedAfresh

\* C25 as the code has it: the file in flight is a candidate of the push
\* run that follows, is not passed over as managed, and a run that ends
\* without error has uploaded it again and recorded it under the new id,
\* unless the file is matched by an ignore rule and the decision of the
\* policy for it in that run is skip.
C25_InterruptedFileRetried ==
    arg.some =>
        /\ EarlierRecordsValid
        /\ ~HasRecord(arg.stores, arg.in_flight)
        /\ pc \in {"check", "upload", "record", "ignore", "done"} =>
              arg.in_flight \in start.candidates
        /\ (pc = "done" /\ result = "ok") =>
              \/ RecordedAfresh
              \/ /\ EventsOf("skip", arg.in_flight) # {}
                 /\ EventsOf("upload", arg.in_flight) = {}
                 /\ ~HasRecord(woilah, arg.in_flight)

\* a push is killed during the upload of a file, the record of an earlier
\* file written; the run that follows uploads the file and records it
C25_Witness ==
    /\ arg.some
    /\ ManagedPairs(arg.stores) # {}
    /\ pc = "done"
    /\ result = "ok"
    /\ RecordedAfresh

\* a push is killed after the upload of a file has returned: the remote
\* store holds an object that no record names; the run that follows
\* uploads the file again and records it under the id of the second upload
C25_WitnessOrphan ==
    /\ arg.some
    /\ arg.uploads = 1
    /\ drive[1].path = arg.in_flight
    /\ pc = "done"
    /\ result = "ok"
    /\ RecordedAfresh

\* the operator answers 1 in the run that is killed and 2 in the run that
\* follows: the file in flight is skipped
C25_WitnessSkipped ==
    /\ arg.some
    /\ pc = "done"
    /\ result = "ok"
    /\ EventsOf("skip", arg.in_flight) # {}

(***************************************************************************)
(* Rules the engine appended and the candidates that follow                *)
(***************************************************************************)
\* the parser as Ditrive::new builds it from the ignore file the run found
ParserAtRunStart ==
    IF has_git THEN [some |-> TRUE, rules |-> load_patterns(start.gitignore)]
    ELSE NoParser

\* the events of the log where the policy was applied to an ignored file
PolicyEvents == {k \in DOMAIN log : log[k].op \in {"prompt", "skip"}}

\* C26: an ignore rule the engine appended for one file never makes a
\* different candidate count as ignored: the policy is applied to a
\* candidate only when a rule that was there before the engine appended
\* any rule matches it; here, for one run, a rule of the ignore file as
\* the run found it.
C26_AppendedRuleNeverIgnoresOther ==
    \A k \in PolicyEvents : is_ignored(ParserAtRunStart, repo_config, log[k].path)

\* what the code does: the policy is applied to a candidate that the
\* rules in memory at that point match, the rules appended earlier in the
\* run included
C26_PolicyOnCurrentRules ==
    \A k \in PolicyEvents :
        \/ is_ignored(ParserAtRunStart, repo_config, log[k].path)
        \/ \E j \in 1 .. k - 1 :
              /\ log[j].op = "ignore"
              /\ log[j].ok
              /\ log[j].path # log[k].path
              /\ PatternMatches(PatternNew(gitignore_to_glob(RelPath(log[j].path))).tokens,
                                RelPath(log[k].path))

\* the rule appended for a.bin of the root makes s/a.bin count as ignored
\* in a repository without any ignore rule, and the policy skip passes
\* s/a.bin over
C26_WitnessShadowed ==
    /\ ~start.gitignore.exists
    /\ repo_config.additional_ignore_patterns = <<>>
    /\ \E k \in DOMAIN log : log[k] = Event("skip", PathOf(SubDir, BinName), TRUE, <<>>)

(***************************************************************************)
(* Two processes that add to or remove from the stores at the same time.   *)
(* Each process runs one add_file_mapping or remove_file_mapping: it reads *)
(* the store, changes its own copy of the mapping, and writes the copy.    *)
(* arg holds the call and the copy of each process, ret the processes in   *)
(* the order of their writes.                                              *)
(***************************************************************************)
Procs == {1, 2}
OtherProc(p) == 3 - p

RecordZ == [id |-> <<"Z">>, hash |-> <<>>, size |-> 3, uploaded_at |-> 1]

\* the record each process adds
RecordOf(p) == IF p = 1 THEN RecordX ELSE RecordY

\* the stores of the root the two processes find
RaceStores ==
    {NoStore,
     StoreOf([n \in {BinName} |-> to_json(RecordZ)]),
     StoreOf([n \in TrackerNames |-> to_json(RecordZ)])}

RaceCalls ==
    {[pc |-> "start", op |-> o, dir |-> d, name |-> n, md |-> DefaultMetadata,
      mappings |-> EmptyMap, seen |-> 0] :
        o \in {"add", "remove"}, d \in Dirs, n \in TrackerNames}

InitRace ==
    /\ RunAtRest("race")
    /\ gitignore = NoFile
    /\ has_git = TRUE
    /\ repo_config = [large_file_threshold_mb |-> U64(1),
                      handle_ignored_large_files |-> "ask",
                      additional_ignore_patterns |-> <<>>,
                      managed_files_marker |-> Marker]
    /\ patterns = [some |-> TRUE, rules |-> <<>>]
    /\ fs = [p \in RegularPaths |-> AbsentFile]
    /\ \E root \in RaceStores :
          woilah = [d \in AllDirs |-> IF d = RootDir THEN root ELSE NoStore]
    /\ arg \in [Procs -> RaceCalls]
    /\ \A p \in Procs : /\ arg[p].name \in NamesIn(arg[p].dir)
                        /\ arg[p].md = DefaultMetadata
    /\ ret = <<>>

\* add_file_mapping and remove_file_mapping up to the write: the mapping is
\* read and changed in memory; remove returns when the name has no record
RaceRead(p) ==
    /\ pc = "race"
    /\ arg[p].pc = "start"
    /\ LET c == arg[p]
           mappings == read_woilah_file(woilah, c.dir)
       IN  arg' = [arg EXCEPT ![p] =
                     IF c.op = "add"
                     THEN [c EXCEPT !.pc = "write", !.seen = Len(ret), !.md = RecordOf(p),
                                    !.mappings = [n \in DOMAIN mappings \cup {c.name} |->
                                                     IF n = c.name THEN RecordOf(p)
                                                     ELSE mappings[n]]]
                     ELSE IF c.name \in DOMAIN mappings
                     THEN [c EXCEPT !.pc = "write", !.seen = Len(ret),
                                    !.mappings = [n \in DOMAIN mappings \ {c.name} |->
                                                     mappings[n]]]
                     ELSE [c EXCEPT !.pc = "done", !.seen = Len(ret),
                                    !.mappings = mappings]]
    /\ UNCHANGED <<tracker_rest, woilah, ret>>

\* the write_woilah_file that ends add_file_mapping and remove_file_mapping
RaceWrite(p) ==
    /\ pc = "race"
    /\ arg[p].pc = "write"
    /\ woilah' = write_woilah_file(woilah, arg[p].dir, arg[p].mappings)
    /\ arg' = [arg EXCEPT ![p].pc = "done"]
    /\ ret' = Append(ret, p)
    /\ UNCHANGED tracker_rest

NextRace == \E p \in Procs : RaceRead(p) \/ RaceWrite(p)

SpecRace == InitRace /\ [][NextRace]_vars

\* both processes have returned from adds of different filenames to the
\* store of one directory
BothAdded ==
    /\ \A p \in Procs : arg[p].pc = "done" /\ arg[p].op = "add"
    /\ arg[1].dir = arg[2].dir
    /\ arg[1].name # arg[2].name

\* C27: add and remove read the whole mapping of the directory, change it,
\* and write the whole mapping back, in steps that another process can come
\* between. After two adds of different filenames to one store the store is
\* the copy of the process that wrote last: its record is there, and the
\* record of the other process is there only if the last writer read the
\* store after the other had written; if it read before, that record is
\* lost.
C27_LostUpdate ==
    BothAdded =>
        LET last == ret[Len(ret)]
            other == OtherProc(last)
            final == read_woilah_file(woilah, arg[last].dir)
        IN  /\ Len(ret) = 2
            /\ final = arg[last].mappings
            /\ final[arg[last].name] = RecordOf(last)
            /\ (arg[other].name \in DOMAIN final /\ final[arg[other].name] = RecordOf(other))
                  <=> arg[last].seen = 1

\* both adds have returned and the store holds the record of one of them
\* only: the other filename has no record
C27_Witness ==
    /\ BothAdded
    /\ \E p \in Procs :
          /\ arg[p].name \in DOMAIN read_woilah_file(woilah, arg[p].dir)
          /\ arg[OtherProc(p)].name \notin DOMAIN read_woilah_file(woilah, arg[p].dir)

\* a remove that read the store before an add wrote takes the added record
\* away with its own write
C27_WitnessRemove ==
    /\ \A p \in Procs : arg[p].pc = "done"
    /\ \E p \in Procs :
          /\ arg[p].op = "add"
          /\ arg[OtherProc(p)].op = "remove"
          /\ arg[p].dir = arg[OtherProc(p)].dir
          /\ arg[p].name # arg[OtherProc(p)].name
          /\ arg[p].name \notin DOMAIN read_woilah_file(woilah, arg[p].dir)

(***************************************************************************)
(* One file at a time, in the order of the enumeration                     *)
(***************************************************************************)
\* the paths of a sequence of log events or of missing records
PathsOf(events) == [i \in DOMAIN events |-> events[i].path]

NoDuplicates(seq) == \A i, j \in DOMAIN seq : seq[i] = seq[j] => i = j

\* the candidates the loop of process_new_files has taken up, in the order
\* of the log: each is found managed, skipped, or handed to upload_file
TakenUp == PathsOf(SelectSeq(log, LAMBDA e : e.op \in {"managed", "skip", "upload"}))

\* the candidates taken up so far, then those still to come; between its
\* upload and the end of its iteration a candidate is still the head of
\* large_files
PushOrder ==
    TakenUp \o (IF pc \in {"record", "ignore"} THEN Tail(large_files) ELSE large_files)

Downloaded == PathsOf(SelectSeq(log, LAMBDA e : e.op = "download"))

\* the records downloaded so far, then those still to come
PullOrder == Downloaded \o PathsOf(missing)

\* the calls under way: upload_file for the head of large_files,
\* download_file for the head of missing
InFlightCalls ==
    (IF pc = "upload" THEN {[op |-> "upload", path |-> Head(large_files)]} ELSE {})
    \cup (IF pc = "download" THEN {[op |-> "download", path |-> Head(missing).path]} ELSE {})

PushLoop == {"check", "upload", "record", "ignore"}

OneAtATime ==
    /\ Cardinality(InFlightCalls) <= 1
    /\ \A c \in InFlightCalls :
          /\ c.op = "upload" => EventsOf("upload", c.path) = {}
          /\ c.op = "download" => EventsOf("download", c.path) = {}
    /\ NoDuplicates(PushOrder)
    /\ NoDuplicates(PullOrder)
    /\ \A q \in AllPaths : /\ Cardinality(EventsOf("upload", q)) <= 1
                           /\ Cardinality(EventsOf("download", q)) <= 1

\* the trees a run can find after earlier pushes: the first k of the two
\* payload files have been uploaded, recorded and, in a repository with
\* .git, added to the ignore file; a recorded file may be gone from the
\* tree, as in a fresh clone
RecordedOrder == <<PathOf(RootDir, BinName), PathOf(SubDir, BinName)>>

UploadedMetadata(i) ==
    [id |-> <<"id", i>>, hash |-> calculate_file_hash(BigFile.content),
     size |-> BigFile.size, uploaded_at |-> i]

RECURSIVE RecordedStores(_)
RecordedStores(k) ==
    IF k = 0 THEN [d \in AllDirs |-> NoStore]
    ELSE add_file_mapping(RecordedStores(k - 1), RecordedOrder[k].dir,
                          RecordedOrder[k].name, UploadedMetadata(k))

RECURSIVE RecordedIgnore(_)
RecordedIgnore(k) ==
    IF k = 0 THEN NoFile
    ELSE add_pattern(RecordedIgnore(k - 1), RelPath(RecordedOrder[k]), Some(Marker)).file

InitRecorded ==
    /\ \E k \in 0 .. 2 :
          /\ drive = [i \in 1 .. k |-> [path |-> RecordedOrder[i], size |-> BigFile.size,
                                        content |-> BigFile.content]]
          /\ woilah = RecordedStores(k)
          /\ has_git \in BOOLEAN
          /\ gitignore = IF has_git THEN RecordedIgnore(k) ELSE NoFile
          /\ fs \in [RegularPaths -> {AbsentFile, BigFile}]
          /\ \A i \in k + 1 .. 2 : fs[RecordedOrder[i]] = BigFile
    /\ repo_config = [large_file_threshold_mb |-> U64(1),
                      handle_ignored_large_files |-> "manage",
                      additional_ignore_patterns |-> <<>>,
                      managed_files_marker |-> Marker]
    /\ pc = "idle"
    /\ cmd = "none"
    /\ patterns = NoParser
    /\ large_files = <<>>
    /\ metadata = DefaultMetadata
    /\ missing = <<>>
    /\ log = <<>>
    /\ result = "none"
    /\ answers = NoAnswers
    /\ start = NoSnapshot
    /\ pull_start = NoSnapshot
    /\ stable = FALSE
    /\ env_steps = 0
    /\ arg = <<>>
    /\ ret = <<>>

SpecRecorded == InitRecorded /\ [][Next]_vars

\* C28: in a run at most one upload or download call is under way at any
\* time, every candidate and every missing record is taken up at most once,
\* and in the order the enumeration gave: the list made of the files taken
\* up so far and the files still to come is without repetition, is the
\* list find_large_files (the filter of the enumerated records) returned
\* when the loop begins, and no step of the loop changes it.
C28_OneAtATimeInOrder ==
    [][/\ OneAtATime
       /\ OneAtATime'
       /\ (pc = "push_begin" /\ pc' = "check") =>
             /\ PushOrder' = large_files'
             /\ {large_files'[i] : i \in DOMAIN large_files'} = start'.candidates
       /\ (pc \in PushLoop /\ pc' \in PushLoop) => PushOrder' = PushOrder
       /\ (pc = "pull_begin" /\ pc' = "download") => PullOrder' = PathsOf(missing')
       /\ (pc = "download" /\ pc' = "download") => PullOrder' = PullOrder
       /\ (pc = "download" /\ pc' = "done" /\ result' = "ok") => PullOrder' = PullOrder]_vars

\* a run has taken up two candidates, the first with an upload and the
\* second still to be uploaded
C28_Witness ==
    /\ pc = "upload"
    /\ Len(PushOrder) = 2
    /\ \E k \in DOMAIN log : log[k].op = "upload" /\ log[k].ok
                                /\ log[k].path = PushOrder[1]
    /\ Head(large_files) = PushOrder[2]

\* a pull with two missing records has downloaded the first
C28_WitnessPull ==
    /\ pc = "download"
    /\ Len(PullOrder) = 2
    /\ Len(missing) = 1

(***************************************************************************)
(* Stores come into being by writes only; remove                           *)
(***************************************************************************)
\* the step is a query of the tracker
QueryStep == ret'.op # "none"

\* the step is the writing operation arg' describes
MutationStep == ret' = NoQuery

\* C29: a directory has a store only if write or add was called for it:
\* a step that brings a store into being is a write or an add for that
\* directory; read, get_file_info, is_managed, needs_update and the
\* enumeration leave every store as it is, and so does the remove of a
\* filename that has no record.
C29_StoreOnlyByWrite ==
    [][/\ \A d \in AllDirs :
             (~woilah[d].exists /\ woilah'[d].exists) =>
                 /\ MutationStep
                 /\ arg'.op \in {"write", "add"}
                 /\ arg'.dir = d
       /\ QueryStep => woilah' = woilah
       /\ (MutationStep /\ arg'.op = "remove" /\ arg'.name \notin DOMAIN arg'.before)
             => woilah' = woilah]_vars

\* a filename was removed from a directory that has no store, and the
\* directory still has none
C29_Witness ==
    /\ arg.op = "remove"
    /\ ~woilah[arg.dir].exists
    /\ ret = NoQuery

\* needs_update was asked for a file of a directory that has no store
C29_WitnessQuery ==
    /\ ret.op = "needs_update"
    /\ ~woilah[ret.dir].exists

\* C30: after remove(directory, filename) the mapping of the directory has
\* no entry for the filename, get_file_info returns none and is_managed
\* false, and every other entry is as it was; the remove of a filename that
\* has no record changes nothing and writes nothing.
C30_Remove ==
    [][(MutationStep /\ arg'.op = "remove") =>
          LET d == arg'.dir
              n == arg'.name
              after == read_woilah_file(woilah', d)
          IN  /\ arg'.before = read_woilah_file(woilah, d)
              /\ n \notin DOMAIN after
              /\ ~get_file_info(woilah', d, n).some
              /\ ~is_managed(woilah', PathOf(d, n))
              /\ DOMAIN after = DOMAIN arg'.before \ {n}
              /\ \A m \in DOMAIN after : after[m] = arg'.before[m]
              /\ \A e \in AllDirs \ {d} : woilah'[e] = woilah[e]
              /\ n \notin DOMAIN arg'.before => woilah' = woilah]_vars

\* a record was removed from a store that holds another record, which is
\* still there
C30_Witness ==
    /\ arg.op = "remove"
    /\ ret = NoQuery
    /\ arg.name \in DOMAIN arg.before
    /\ DOMAIN read_woilah_file(woilah, arg.dir) = DOMAIN arg.before \ {arg.name}
    /\ read_woilah_file(woilah, arg.dir) # EmptyMap

\* after the remove of a record is_managed answers false for it
C30_WitnessQuery ==
    /\ arg.op = "remove"
    /\ arg.name \in DOMAIN arg.before
    /\ ret.op = "is_managed"
    /\ ret.dir = arg.dir
    /\ ret.name = arg.name
    /\ ~ret.flag

(***************************************************************************)
(* GitIgnoreParser::new over ignore files with lines of every kind         *)
(***************************************************************************)
\* lines of an ignore file with what they are: a rule (with the pattern it
\* states and whether it is negated), a blank line, a comment, or a line
\* whose pattern is no valid glob ("[", "x***", "![")
LoadLines ==
    {[text |-> <<"a">>, kind |-> "rule", pattern |-> <<"a">>, is_negated |-> FALSE],
     [text |-> <<"!", "b">>, kind |-> "rule", pattern |-> <<"b">>, is_negated |-> TRUE],
     [text |-> <<" ", "/", "c", " ">>, kind |-> "rule", pattern |-> <<"/", "c">>,
      is_negated |-> FALSE],
     [text |-> <<" ">>, kind |-> "blank", pattern |-> <<>>, is_negated |-> FALSE],
     [text |-> <<"#", "a">>, kind |-> "comment", pattern |-> <<>>, is_negated |-> FALSE],
     [text |-> <<"[">>, kind |-> "invalid", pattern |-> <<"[">>, is_negated |-> FALSE],
     [text |-> <<"x", "*", "*", "*">>, kind |-> "invalid", pattern |-> <<"x", "*", "*", "*">>,
      is_negated |-> FALSE],
     [text |-> <<"!", "[">>, kind |-> "invalid", pattern |-> <<"[">>, is_negated |-> TRUE]}

\* the text of a file with the given lines, each ended by a newline
RECURSIVE JoinLines(_)
JoinLines(ls) ==
    IF ls = <<>> THEN <<>> ELSE Head(ls).text \o <<NL>> \o JoinLines(Tail(ls))

InitLoadPatterns ==
    /\ RunAtRest("parser_new")
    /\ fs = [p \in RegularPaths |-> AbsentFile]
    /\ has_git = TRUE
    /\ woilah = [d \in AllDirs |-> NoStore]
    /\ repo_config = [large_file_threshold_mb |-> U64(1),
                      handle_ignored_large_files |-> "ask",
                      additional_ignore_patterns |-> <<>>,
                      managed_files_marker |-> Marker]
    /\ patterns = NoParser
    /\ arg \in SeqsUpTo(LoadLines, MaxRules)
    /\ gitignore = TextFile(JoinLines(arg))
    /\ ret = <<>>

\* GitIgnoreParser::new: the rules are loaded from the ignore file
ParserNew ==
    /\ pc = "parser_new"
    /\ pc' = "parser_loaded"
    /\ patterns' = [some |-> TRUE, rules |-> load_patterns(gitignore)]
    /\ UNCHANGED <<fs, gitignore, has_git, woilah, repo_config, drive, cmd, large_files,
                   metadata, missing, log, result, answers, start, pull_start, stable,
                   env_steps, arg, ret>>

SpecLoadPatterns == InitLoadPatterns /\ [][ParserNew]_vars

\* the lines of the file that state a rule, in the order of the file
RuleLinesOf(ls) == SelectSeq(ls, LAMBDA l : l.kind = "rule")

\* C31: a line whose pattern is no valid glob is dropped and the parse goes
\* on: every other line that is neither blank nor a comment becomes a rule,
\* and the rules are in the order of their lines.
C31_InvalidLineDropped ==
    pc = "parser_loaded" =>
        LET expected == RuleLinesOf(arg)
        IN  /\ patterns.some
            /\ Len(patterns.rules) = Len(expected)
            /\ \A i \in DOMAIN expected :
                  /\ patterns.rules[i].is_negated = expected[i].is_negated
                  /\ ~PatternNew(gitignore_to_glob(expected[i].pattern)).err
                  /\ patterns.rules[i].pattern
                        = PatternNew(gitignore_to_glob(expected[i].pattern)).tokens
            /\ \A i \in DOMAIN arg :
                  arg[i].kind = "invalid" =>
                      PatternNew(gitignore_to_glob(arg[i].pattern)).err

\* an invalid line between two rules: both rules are loaded, in the order
\* of their lines
C31_Witness ==
    /\ pc = "parser_loaded"
    /\ Len(arg) = 3
    /\ arg[1].kind = "rule"
    /\ arg[2].kind = "invalid"
    /\ arg[3].kind = "rule"
    /\ arg[1] # arg[3]
    /\ Len(patterns.rules) = 2
    /\ patterns.rules[1].is_negated = arg[1].is_negated
    /\ patterns.rules[2].is_negated = arg[3].is_negated

(***************************************************************************)
(* Rules with and without a leading '/'                                    *)
(***************************************************************************)
\* "/a", "a", "/s/a", "s/a", "/*.l", "*.l", "/?", "/s/*"
AnchorRules ==
    {<<"/", "a">>, <<"a">>, <<"/", "s", "/", "a">>, <<"s", "/", "a">>,
     <<"/", "*", ".", "l">>, <<"*", ".", "l">>, <<"/", "?">>, <<"/", "s", "/", "*">>}

\* "a", "s/a", "t/s/a", "i.l", "s/i.l", "s/t/i.l", "b"
AnchorPaths ==
    {<<"a">>, <<"s", "/", "a">>, <<"t", "/", "s", "/", "a">>, <<"i", ".", "l">>,
     <<"s", "/", "i", ".", "l">>, <<"s", "/", "t", "/", "i", ".", "l">>, <<"b">>}

InitAnchoring ==
    /\ AtRest("eval_anchoring")
    /\ arg \in [rule : AnchorRules, path : AnchorPaths]
    /\ ret = FALSE

\* GitIgnoreParser::is_ignored with the rules of a file of one line
EvalAnchoring ==
    /\ pc = "eval_anchoring"
    /\ pc' = "evaluated"
    /\ ret' = parser_is_ignored(PatternsOfLines(<<arg.rule>>), arg.path)
    /\ UNCHANGED <<program_vars, arg>>

SpecAnchoring == InitAnchoring /\ [][EvalAnchoring]_vars

\* a pattern matches a path from its first character on, '*' and '?'
\* standing for characters of one path component only
RECURSIVE ComponentMatch(_, _, _, _)
ComponentMatch(pat, i, path, j) ==
    IF i > Len(pat) THEN j > Len(path)
    ELSE IF pat[i] = "*" THEN
        \/ ComponentMatch(pat, i + 1, path, j)
        \/ j <= Len(path) /\ path[j] # "/" /\ ComponentMatch(pat, i, path, j + 1)
    ELSE IF pat[i] = "?" THEN
        j <= Len(path) /\ path[j] # "/" /\ ComponentMatch(pat, i + 1, path, j + 1)
    ELSE j <= Len(path) /\ path[j] = pat[i] /\ ComponentMatch(pat, i + 1, path, j + 1)

\* the path from the root and from every directory on the way to the file
PathTails(path) ==
    {path} \cup {SubSeq(path, k + 1, Len(path)) : k \in {i \in DOMAIN path : path[i] = "/"}}

Anchored == StartsWith(arg.rule, "/")

\* C32: a rule with a leading '/' matches a path only from the root on, so
\* never a file in a subdirectory the pattern does not spell out; a rule
\* without a leading '/' matches the path at any depth, directly under the
\* root included.
C32_LeadingSlashAnchors ==
    pc = "evaluated" =>
        /\ (Anchored /\ ret) => ComponentMatch(Tail(arg.rule), 1, arg.path, 1)
        /\ (~Anchored /\ \E t \in PathTails(arg.path) : ComponentMatch(arg.rule, 1, t, 1))
              => ret

\* what the parser does: a rule with a leading '/' and without '*' matches
\* from the root on only, one with '*' also matches below directories the
\* pattern does not name, since '*' stands for '/' as well; a rule without
\* a leading '/' matches at any depth
C32_AnchoredUnlessStar ==
    pc = "evaluated" =>
        /\ (Anchored /\ ret /\ \A i \in DOMAIN arg.rule : arg.rule[i] # "*")
              => ComponentMatch(Tail(arg.rule), 1, arg.path, 1)
        /\ (Anchored /\ ComponentMatch(Tail(arg.rule), 1, arg.path, 1)) => ret
        /\ (~Anchored /\ \E t \in PathTails(arg.path) : ComponentMatch(arg.rule, 1, t, 1))
              => ret

\* the rule /*.l ignores s/i.l
C32_WitnessStar ==
    /\ pc = "evaluated"
    /\ arg.rule = <<"/", "*", ".", "l">>
    /\ arg.path = <<"s", "/", "i", ".", "l">>
    /\ ret

\* the rule /a does not ignore s/a, the rule a does
C32_WitnessLiteral ==
    /\ pc = "evaluated"
    /\ arg.path = <<"s", "/", "a">>
    /\ \/ arg.rule = <<"/", "a">> /\ ~ret
       \/ arg.rule = <<"a">> /\ ret

(***************************************************************************)
(* DriveManager: the folder-id cache                                       *)
(***************************************************************************)

\* the id of the repository's folder, and the names of sub-folders
RepoFolderId == <<"R">>

FolderNames == {<<"s">>, <<"t">>}

\* the directory components of a file's repository-relative parent
FolderPaths == {<<>>, <<<<"s">>>>, <<<<"t">>>>, <<<<"s">>, <<"t">>>>}

IdDigits == <<"1", "2", "3", "4", "5", "6", "7", "8", "9">>

\* the id the remote store gives to its n-th created folder
NewFolderId(n) == <<"f", IdDigits[n]>>

\* the remote store answers a request, or the request fails
RemoteOutcomes == {"ok", "list_fails", "create_fails"}

\* format!("{}/{}", parent_id, name)
cache_key(parent_id, name) == parent_id \o <<"/">> \o name

cache_insert(cache, key, id) ==
    [k \in DOMAIN cache \cup {key} |-> IF k = key THEN id ELSE cache[k]]

\* a client that forgets every folder it resolved
get_or_create_folder_NoInsert(cache, remote, name, parent_id, outcome) ==
    LET key == cache_key(parent_id, name)
        found == {f \in remote : f.parent = parent_id /\ f.name = name}
        failed == [ok |-> FALSE, id |-> <<>>, cache |-> cache, remote |-> remote,
                   remote_call |-> TRUE]
    IN  IF key \in DOMAIN cache
        THEN [ok |-> TRUE, id |-> cache[key], cache |-> cache, remote |-> remote,
              remote_call |-> FALSE]
        ELSE IF outcome = "list_fails" THEN failed
        ELSE IF found # {}
        THEN [ok |-> TRUE, id |-> (CHOOSE f \in found : TRUE).id, cache |-> cache,
              remote |-> remote, remote_call |-> TRUE]
        ELSE IF outcome = "create_fails" THEN failed
        ELSE LET id == NewFolderId(Cardinality(remote) + 1)
             IN  [ok |-> TRUE, id |-> id, cache |-> cache,
                  remote |-> remote \cup {[parent |-> parent_id, name |-> name, id |-> id]},
                  remote_call |-> TRUE]

\* DriveManager::get_or_create_folder: the cached id, or else the id the
\* remote store lists for the name under the parent, or else the id of a
\* folder created there; the id is cached only when the call succeeds
get_or_create_folder(cache, remote, name, parent_id, outcome) ==
    LET key == cache_key(parent_id, name)
        found == {f \in remote : f.parent = parent_id /\ f.name = name}
        failed == [ok |-> FALSE, id |-> <<>>, cache |-> cache, remote |-> remote,
                   remote_call |-> TRUE]
    IN  IF key \in DOMAIN cache
        THEN [ok |-> TRUE, id |-> cache[key], cache |-> cache, remote |-> remote,
              remote_call |-> FALSE]
        ELSE IF outcome = "list_fails" THEN failed
        ELSE IF found # {}
        THEN LET id == (CHOOSE f \in found : TRUE).id
             IN  [ok |-> TRUE, id |-> id, cache |-> cache_insert(cache, key, id),
                  remote |-> remote, remote_call |-> TRUE]
        ELSE IF outcome = "create_fails" THEN failed
        ELSE LET id == NewFolderId(Cardinality(remote) + 1)
             IN  [ok |-> TRUE, id |-> id, cache |-> cache_insert(cache, key, id),
                  remote |-> remote \cup {[parent |-> parent_id, name |-> name, id |-> id]},
                  remote_call |-> TRUE]

NoResolution ==
    [some |-> FALSE, key |-> <<>>, again |-> FALSE, ok |-> FALSE, id |-> <<>>,
     remote_call |-> FALSE]

EmptyCache == [k \in {} |-> <<>>]

\* the folders of the remote store before the client's first call: none, a
\* folder "s" of the repository, or one the store lists without an id
RemoteStores ==
    {{}, {[parent |-> RepoFolderId, name |-> <<"s">>, id |-> <<"e">>]},
     {[parent |-> RepoFolderId, name |-> <<"s">>, id |-> <<>>]}}

\* arg is the client and the remote store, with the ids handed out and the
\* remote resolutions started per key; ret is the call in progress
InitFolders ==
    /\ AtRest("drive_manager")
    /\ \E r \in RemoteStores :
        arg = [folder_cache |-> EmptyCache, remote |-> r, calls |-> 0,
               resolved |-> EmptyCache, remote_resolutions |-> [k \in {} |-> 0]]
    /\ ret = [at |-> "idle", todo |-> <<>>, current |-> <<>>, last |-> NoResolution]

\* DriveManager::get_folder_for_path starts at the repository's folder
GetFolderForPath(dirs) ==
    /\ ret.at = "idle"
    /\ arg.calls < MaxCalls
    /\ arg' = [arg EXCEPT !.calls = @ + 1]
    /\ ret' = [at |-> "walking", todo |-> dirs, current |-> RepoFolderId,
               last |-> NoResolution]
    /\ UNCHANGED <<program_vars, pc>>

\* one component of the path: get_or_create_folder under the folder reached;
\* an error leaves get_folder_for_path, upload_file and the run
ResolveComponent(outcome) ==
    /\ ret.at = "walking"
    /\ ret.todo # <<>>
    /\ LET name == Head(ret.todo)
           key == cache_key(ret.current, name)
           r == get_or_create_folder(arg.folder_cache, arg.remote, name, ret.current,
                                     outcome)
           count == IF key \in DOMAIN arg.remote_resolutions
                    THEN arg.remote_resolutions[key] ELSE 0
       IN  /\ arg' = [arg EXCEPT
                  !.folder_cache = r.cache,
                  !.remote = r.remote,
                  !.resolved = IF r.ok /\ key \notin DOMAIN @
                               THEN cache_insert(@, key, r.id) ELSE @,
                  !.remote_resolutions =
                      IF r.remote_call THEN cache_insert(@, key, count + 1) ELSE @]
           /\ ret' = [at |-> IF r.ok THEN "walking" ELSE "failed",
                      todo |-> IF r.ok THEN Tail(ret.todo) ELSE <<>>,
                      current |-> r.id,
                      last |-> [some |-> TRUE, key |-> key,
                                again |-> key \in DOMAIN arg.resolved,
                                ok |-> r.ok, id |-> r.id,
                                remote_call |-> r.remote_call]]
    /\ UNCHANGED <<program_vars, pc>>

\* every component is resolved: the folder reached is the file's folder
FolderForPathReturns ==
    /\ ret.at = "walking"
    /\ ret.todo = <<>>
    /\ ret' = [ret EXCEPT !.at = "idle"]
    /\ UNCHANGED <<program_vars, pc, arg>>

NextFolders ==
    \/ \E dirs \in FolderPaths : GetFolderForPath(dirs)
    \/ \E outcome \in RemoteOutcomes : ResolveComponent(outcome)
    \/ FolderForPathReturns

SpecFolders == InitFolders /\ [][NextFolders]_vars

\* C33: within one client a (parent folder id, folder name) pair is looked up
\* or created remotely at most once, and every resolution of a pair that was
\* resolved before returns the same id from the cache with no remote call
C33_ResolvedRemotelyOnce ==
    /\ \A k \in DOMAIN arg.remote_resolutions : arg.remote_resolutions[k] <= 1
    /\ ret.last.some /\ ret.last.again =>
        /\ ret.last.ok
        /\ ~ret.last.remote_call
        /\ ret.last.id = arg.resolved[ret.last.key]

\* a folder shared by three files: resolved remotely for the first, from the
\* cache for the third
C33_Witness ==
    /\ arg.calls = 3
    /\ ret.last.some /\ ret.last.again
    /\ ret.last.key = cache_key(RepoFolderId, <<"s">>)
    /\ arg.remote_resolutions[ret.last.key] = 1
    /\ ret.last.id = NewFolderId(1)

\* a step of the pull phase: sync_missing_files or one download of its loop
PullStep == pc \in {"pull_begin", "download"}

\* C34 as stated: a step of pull leaves every tracker store and the ignore
\* file as they were and changes no local file that exists
C34_PullWritesOnlyMissing ==
    [][PullStep =>
        /\ woilah' = woilah
        /\ gitignore' = gitignore
        /\ \A p \in RegularPaths : fs[p].exists => fs'[p] = fs[p]]_vars

\* what holds of every step of pull: no tracker store is written, and no
\* local file that exists is changed, the ignore file included
C34_PullLeavesStoresAndExisting ==
    [][PullStep =>
        /\ woilah' = woilah
        /\ gitignore.exists => gitignore' = gitignore
        /\ \A p \in RegularPaths : fs[p].exists => fs'[p] = fs[p]]_vars

\* a pull has restored the ignore file from its own tracker record
C34_WitnessIgnoreFileRestored ==
    /\ pc = "done" /\ cmd = "pull" /\ result = "ok"
    /\ pull_start.taken /\ GitignorePath \notin pull_start.exists
    /\ gitignore.exists

\* the step is a call of add_file_mapping
AddStep == MutationStep /\ arg'.op = "add"

\* C35: add_file_mapping changes the entry of its filename only: every other
\* filename of the directory has the same record, or none, before and after
\* the call, and the store of every other directory is left as it was
C35_AddChangesOneEntry ==
    [][AddStep =>
        LET before == read_woilah_file(woilah, arg'.dir)
            after == read_woilah_file(woilah', arg'.dir)
        IN  /\ DOMAIN after = DOMAIN before \cup {arg'.name}
            /\ after[arg'.name] = arg'.md
            /\ \A n \in DOMAIN before \ {arg'.name} : after[n] = before[n]
            /\ \A d \in AllDirs \ {arg'.dir} : woilah'[d] = woilah[d]]_vars

\* an add in a directory whose store held a record of another filename, the
\* store of another directory being there
C35_Witness ==
    /\ arg.op = "add" /\ ret = NoQuery
    /\ arg.dir = RootDir /\ arg.name = BinName /\ arg.md = RecordY
    /\ GitignoreName \in DOMAIN arg.before
    /\ read_woilah_file(woilah, RootDir)[GitignoreName] = arg.before[GitignoreName]
    /\ arg.before[GitignoreName].id # <<>>
    /\ woilah[SubDir].exists

(***************************************************************************)
(* A push stops at any point of the three steps of a file                  *)
(***************************************************************************)
\* the process is killed while the upload of a file is under way (upload),
\* after it returned (record) or after the record was written and before
\* the rule is appended (ignore); the file and the point are kept
StopInCommit ==
    /\ pc \in {"upload", "record", "ignore"}
    /\ ProcessKilled
    /\ arg' = [some |-> TRUE, in_flight |-> Head(large_files), stores |-> woilah,
               uploads |-> Len(drive)]
    /\ ret' = pc

NextStopped ==
    \/ StartRun("push")
    \/ ProcessNewFilesBegin
    \/ ExamineCandidate
    \/ PushLoopEnd
    \/ UploadFile
    \/ RecordMapping
    \/ AppendIgnoreRule
    \/ StopInCommit
    \/ Exit

SpecStopped == InitInterrupt /\ [][NextStopped]_vars

\* C36: when a push has stopped at some point of the upload, record, ignore
\* rule sequence of a file, a later push that ends without error leaves the
\* file with a tracker record and with its repository-relative path as a
\* line of the ignore file
C36_CommitCompletedByRerun ==
    (arg.some /\ pc = "done" /\ result = "ok") =>
        /\ HasRecord(woilah, arg.in_flight)
        /\ RelPath(arg.in_flight) \in IgnoreLines(gitignore)

\* the push stopped after the record of the file was written; the next push
\* ended without error and the file has no line in the ignore file
C36_WitnessRecordedWithoutRule ==
    /\ arg.some /\ ret = "ignore"
    /\ pc = "done" /\ result = "ok"
    /\ repo_config.handle_ignored_large_files = "manage"
    /\ gitignore = NoFile
    /\ HasRecord(woilah, arg.in_flight)
    /\ RelPath(arg.in_flight) \notin IgnoreLines(gitignore)
    /\ EventsOf("upload", arg.in_flight) = {}

\* the push stopped before the record of the file was written; the next
\* push ended without error with the record and the line
C36_WitnessRetried ==
    /\ arg.some /\ ret \in {"upload", "record"}
    /\ pc = "done" /\ result = "ok"
    /\ HasRecord(woilah, arg.in_flight)
    /\ RelPath(arg.in_flight) \in IgnoreLines(gitignore)
    /\ arg.in_flight = PathOf(SubDir, BinName)

(***************************************************************************)
(* A full sync, and a second one right after it                            *)
(***************************************************************************)
\* trees as earlier pushes and a fresh clone leave them, under the policies
\* that ask nothing; arg tells whether the run is the second sync
InitSync ==
    /\ \E k \in 0 .. 2 :
          /\ drive = [i \in 1 .. k |-> [path |-> RecordedOrder[i], size |-> BigFile.size,
                                        content |-> BigFile.content]]
          /\ woilah = RecordedStores(k)
          /\ has_git \in BOOLEAN
          /\ gitignore = IF has_git THEN RecordedIgnore(k) ELSE NoFile
    /\ fs \in [RegularPaths -> {AbsentFile, BigFile}]
    /\ repo_config \in [large_file_threshold_mb : {U64(0), U64(1)},
                        handle_ignored_large_files : {"skip", "manage"},
                        additional_ignore_patterns : {<<>>},
                        managed_files_marker : {Marker}]
    /\ pc = "idle"
    /\ cmd = "none"
    /\ patterns = NoParser
    /\ large_files = <<>>
    /\ metadata = DefaultMetadata
    /\ missing = <<>>
    /\ log = <<>>
    /\ result = "none"
    /\ answers = NoAnswers
    /\ start = NoSnapshot
    /\ pull_start = NoSnapshot
    /\ stable = FALSE
    /\ env_steps = 0
    /\ arg = [rerun |-> FALSE]
    /\ ret = <<>>

\* main, run again with the command sync as soon as a sync has returned Ok:
\* the process exits and the next one starts on the tree as it was left
SyncAgain ==
    /\ pc = "done"
    /\ cmd = "sync"
    /\ result = "ok"
    /\ cmd' = "sync"
    /\ patterns' = IF has_git THEN [some |-> TRUE, rules |-> load_patterns(gitignore)]
                   ELSE NoParser
    /\ pc' = "push_begin"
    /\ log' = <<>>
    /\ result' = "running"
    /\ start' = [taken |-> TRUE, stores |-> woilah, gitignore |-> gitignore,
                 candidates |-> {}, exists |-> ExistingPaths, stable |-> FALSE]
    /\ pull_start' = NoSnapshot
    /\ stable' = FALSE
    /\ answers' = NoAnswers
    /\ arg' = [rerun |-> TRUE]
    /\ UNCHANGED <<tree_vars, large_files, metadata, missing, env_steps, ret>>

NextSync ==
    \/ StartRun("sync")
    \/ ProcessNewFilesBegin
    \/ ExamineCandidate
    \/ PushLoopEnd
    \/ UploadFile
    \/ RecordMapping
    \/ AppendIgnoreRule
    \/ SyncMissingBegin
    \/ DownloadFile
    \/ SyncAgain

SpecSync == InitSync /\ [][NextSync]_vars

SyncEndedOk == pc = "done" /\ cmd = "sync" /\ result = "ok"

\* after a sync that ended without error every tracked path exists
C37_TrackedPathsExist ==
    SyncEndedOk => \A m \in ManagedPairs(woilah) : PathExists(m.path)

\* C37: after a sync that ended without error every tracked path exists, and
\* a sync that follows at once makes no upload and no download call and
\* leaves every tracker store and the ignore file as they were
C37_SyncConverges ==
    /\ C37_TrackedPathsExist
    /\ arg.rerun =>
          /\ \A k \in DOMAIN log : log[k].op \notin {"upload", "download"}
          /\ woilah = start.stores
          /\ gitignore = start.gitignore

\* the second sync has uploaded the ignore file that the first one wrote
C37_WitnessIgnoreFileUploaded ==
    /\ arg.rerun
    /\ SyncEndedOk
    /\ EventsOf("upload", GitignorePath) # {}
    /\ HasRecord(woilah, GitignorePath)
    /\ ~HasRecord(start.stores, GitignorePath)
    /\ gitignore # start.gitignore

\* a second sync that found nothing to do, after a first one that restored
\* a missing file
C37_WitnessConverged ==
    /\ arg.rerun
    /\ SyncEndedOk
    /\ log # <<>>
    /\ \A k \in DOMAIN log : log[k].op \notin {"upload", "download"}
    /\ ManagedPairs(woilah) # {}
    /\ woilah = start.stores /\ gitignore = start.gitignore

(***************************************************************************)
(* Two processes at the stores of two different directories                *)
(***************************************************************************)
\* the stores of the subdirectory the two processes find
RaceSubStores == {NoStore, StoreOf([n \in {BinName} |-> to_json(RecordZ)])}

\* the calls are for different directories; found keeps the stores as they
\* were before the calls
InitRaceDirs ==
    /\ RunAtRest("race")
    /\ gitignore = NoFile
    /\ has_git = TRUE
    /\ repo_config = [large_file_threshold_mb |-> U64(1),
                      handle_ignored_large_files |-> "ask",
                      additional_ignore_patterns |-> <<>>,
                      managed_files_marker |-> Marker]
    /\ patterns = [some |-> TRUE, rules |-> <<>>]
    /\ fs = [p \in RegularPaths |-> AbsentFile]
    /\ \E root \in RaceStores, sub \in RaceSubStores :
          woilah = [d \in AllDirs |-> IF d = RootDir THEN root
                                      ELSE IF d = SubDir THEN sub ELSE NoStore]
    /\ \E calls \in [Procs -> RaceCalls] :
          /\ \A p \in Procs : calls[p].name \in NamesIn(calls[p].dir)
          /\ calls[1].dir # calls[2].dir
          /\ arg = [p \in Procs |->
                      [pc |-> "start", op |-> calls[p].op, dir |-> calls[p].dir,
                       name |-> calls[p].name, md |-> DefaultMetadata,
                       mappings |-> EmptyMap, seen |-> 0, found |-> woilah]]
    /\ ret = <<>>

SpecRaceDirs == InitRaceDirs /\ [][NextRace]_vars

\* the stores after the call of process p alone
OwnResult(p) ==
    IF arg[p].op = "add"
    THEN add_file_mapping(arg[p].found, arg[p].dir, arg[p].name, RecordOf(p))
    ELSE remove_file_mapping(arg[p].found, arg[p].dir, arg[p].name)

\* C38: when two processes add to or remove from the stores of two different
\* directories at the same time, then in whatever order their reads and
\* writes come, both have returned with the store of each directory being
\* what the call for that directory alone makes of it
C38_DifferentDirsIndependent ==
    (\A p \in Procs : arg[p].pc = "done") =>
        \A p \in Procs : woilah[arg[p].dir] = OwnResult(p)[arg[p].dir]

\* an add to the root and a remove from the subdirectory, both read before
\* either wrote, both have written
C38_Witness ==
    /\ \A p \in Procs : arg[p].pc = "done" /\ arg[p].seen = 0
    /\ Len(ret) = 2
    /\ arg[1].op = "add" /\ arg[1].dir = RootDir
    /\ arg[2].op = "remove" /\ arg[2].dir = SubDir
    /\ arg[1].found[RootDir].exists
    /\ woilah[RootDir] # arg[1].found[RootDir]
    /\ woilah[SubDir] # arg[2].found[SubDir]

(***************************************************************************)
(* Ditrive::is_ignored: the ignore-file rules and the additional patterns  *)
(***************************************************************************)
\* "*.l", "!i.l" and "!s/i.l"
OrchRuleLines == {<<"*", ".", "l">>, <<"!", "i", ".", "l">>,
                  <<"!", "s", "/", "i", ".", "l">>}

\* "*.l", "i.l", "*" and "l"
AdditionalPatterns == {<<"*", ".", "l">>, <<"i", ".", "l">>, <<"*">>, <<"l">>}

OrchPaths == {PathOf(RootDir, <<"i", ".", "l">>), PathOf(SubDir, <<"i", ".", "l">>),
              PathOf(RootDir, <<"o", ".", "l">>), PathOf(RootDir, <<"l">>),
              PathOf(SubDir, <<"a">>)}

InitOrchIgnored ==
    /\ AtRest("eval_orch_ignored")
    /\ arg \in [has_parser : BOOLEAN, lines : SeqsUpTo(OrchRuleLines, MaxRules),
                additional : SeqsUpTo(AdditionalPatterns, 2), path : OrchPaths]
    /\ ret = FALSE

EvalOrchIgnored ==
    /\ pc = "eval_orch_ignored"
    /\ pc' = "evaluated"
    /\ ret' = is_ignored(IF arg.has_parser
                         THEN [some |-> TRUE, rules |-> PatternsOfLines(arg.lines)]
                         ELSE NoParser,
                         [repo_config EXCEPT !.additional_ignore_patterns = arg.additional],
                         arg.path)
    /\ UNCHANGED <<program_vars, arg>>

SpecOrchIgnored == InitOrchIgnored /\ [][EvalOrchIgnored]_vars

\* the ignore-rule engine reports the path ignored: some rule matches it and
\* the last one that does is not negated
EngineReports ==
    /\ arg.has_parser
    /\ LET rules == PatternsOfLines(arg.lines)
           M == {i \in DOMAIN rules : PatternMatches(rules[i].pattern, RelPath(arg.path))}
       IN  M # {} /\ ~rules[LastOf(M)].is_negated

\* the file name is the pattern, or ends with what follows the '*' the
\* pattern starts with
NameMatches(name, pattern) ==
    IF pattern # <<>> /\ pattern[1] = "*"
    THEN /\ Len(name) >= Len(pattern) - 1
         /\ \A i \in 2 .. Len(pattern) : name[Len(name) - Len(pattern) + i] = pattern[i]
    ELSE name = pattern

\* C39: the orchestrator takes a candidate as ignored exactly when the
\* ignore-rule engine reports it ignored or its file name matches one of the
\* additional patterns; a negated rule of the ignore file takes nothing
\* away from a match of an additional pattern
C39_IgnoredByEngineOrAdditional ==
    pc = "evaluated" =>
        ret = (\/ EngineReports
               \/ \E i \in DOMAIN arg.additional :
                     NameMatches(arg.path.name, arg.additional[i]))

\* the rule "!i.l" un-ignores i.l in the engine, the additional pattern
\* "*.l" matches its name, and the candidate is ignored
C39_Witness ==
    /\ pc = "evaluated"
    /\ arg.has_parser
    /\ arg.lines = <<<<"*", ".", "l">>, <<"!", "i", ".", "l">>>>
    /\ arg.additional = <<<<"*", ".", "l">>>>
    /\ arg.path = PathOf(RootDir, <<"i", ".", "l">>)
    /\ ~EngineReports
    /\ ret

(***************************************************************************)
(* OAuthManager::get_access_token                                          *)
(***************************************************************************)
NoTokens == [access_token |-> <<>>, refresh_token |-> None, expires_at |-> 0]

\* ~/.ditrive/tokens.json: absent, not a StoredTokens value, or tokens
NoTokensFile == [exists |-> FALSE, parses |-> FALSE, val |-> NoTokens]
DamagedTokensFile == [exists |-> TRUE, parses |-> FALSE, val |-> NoTokens]
TokensFile(tokens) == [exists |-> TRUE, parses |-> TRUE, val |-> tokens]

\* the seconds that pass before a call and the lifetimes the token endpoint
\* gives; the clock reads 1000 at the start
TimeSteps == {0, 1, 3600}
Lifetimes == {300, 301, 3600}

\* what a request to the token endpoint, and the save after it, comes to
TokenOutcomes == {"ok", "send_fails", "status_fails", "parse_fails", "save_fails"}

\* OAuthManager::load_tokens
load_tokens(file) ==
    IF file.exists /\ file.parses THEN [ok |-> TRUE, val |-> file.val]
    ELSE [ok |-> FALSE, val |-> NoTokens]

\* mutant: a token is used until it expires
token_is_fresh_NoBuffer(tokens, now) == tokens.expires_at > now

\* the test of get_access_token: valid, with a buffer of five minutes
token_is_fresh(tokens, now) == tokens.expires_at > now + 300

NoTokenCall ==
    [at |-> "idle", now |-> 1000, loaded |-> load_tokens(NoTokensFile),
     network |-> <<>>, refresh |-> "none", refreshed |-> <<>>, returned |-> FALSE,
     result |-> [ok |-> FALSE, token |-> <<>>]]

\* arg is the tokens file, the clock, the tokens the endpoint has issued and
\* the calls made; ret is the call of get_access_token under way or returned
InitOAuth ==
    /\ AtRest("oauth")
    /\ \E file \in {NoTokensFile, DamagedTokensFile}
                   \cup {TokensFile([access_token |-> <<"T", 0>>, refresh_token |-> r,
                                     expires_at |-> e]) :
                            r \in {None, Some(<<"R", 0>>)},
                            e \in {0, 1000 + 300, 1000 + 301}} :
          arg = [tokens_file |-> file, now |-> 1000, issued |-> 0, calls |-> 0]
    /\ ret = NoTokenCall

\* get_access_token up to its first await: the stored tokens are loaded and
\* tested against the clock
GetAccessToken(passed) ==
    /\ ret.at = "idle"
    /\ arg.calls < MaxCalls
    /\ LET now == arg.now + passed
           loaded == load_tokens(arg.tokens_file)
           call == [NoTokenCall EXCEPT !.now = now, !.loaded = loaded]
       IN  /\ arg' = [arg EXCEPT !.now = now, !.calls = @ + 1]
           /\ ret' = IF loaded.ok /\ token_is_fresh(loaded.val, now)
                     THEN [call EXCEPT !.returned = TRUE,
                                       !.result = [ok |-> TRUE,
                                                   token |-> loaded.val.access_token]]
                     ELSE IF loaded.ok /\ loaded.val.refresh_token.some
                     THEN [call EXCEPT !.at = "refresh"]
                     ELSE [call EXCEPT !.at = "authorize"]
    /\ UNCHANGED <<program_vars, pc>>

\* OAuthManager::refresh_token and what get_access_token makes of its result
RefreshToken(outcome, expires_in, new_refresh) ==
    /\ ret.at = "refresh"
    /\ LET issued == outcome \in {"ok", "save_fails"}
           tokens == [access_token |-> <<"T", arg.issued + 1>>,
                      refresh_token |-> IF new_refresh
                                        THEN Some(<<"R", arg.issued + 1>>)
                                        ELSE ret.loaded.val.refresh_token,
                      expires_at |-> ret.now + expires_in]
       IN  /\ arg' = [arg EXCEPT
                  !.issued = IF issued THEN @ + 1 ELSE @,
                  !.tokens_file = IF outcome = "ok" THEN TokensFile(tokens) ELSE @]
           /\ ret' = IF outcome = "ok"
                     THEN [ret EXCEPT !.at = "idle", !.network = Append(@, "refresh"),
                                      !.refresh = "ok",
                                      !.refreshed = tokens.access_token,
                                      !.returned = TRUE,
                                      !.result = [ok |-> TRUE,
                                                  token |-> tokens.access_token]]
                     ELSE [ret EXCEPT !.at = "authorize",
                                      !.network = Append(@, "refresh"),
                                      !.refresh = "failed"]
    /\ UNCHANGED <<program_vars, pc>>

\* OAuthManager::authorize, the interactive flow, and the return of
\* get_access_token after it
Authorize(outcome, expires_in) ==
    /\ ret.at = "authorize"
    /\ LET issued == outcome \in {"ok", "save_fails"}
           tokens == [access_token |-> <<"T", arg.issued + 1>>,
                      refresh_token |-> Some(<<"R", arg.issued + 1>>),
                      expires_at |-> ret.now + expires_in]
       IN  /\ arg' = [arg EXCEPT
                  !.issued = IF issued THEN @ + 1 ELSE @,
                  !.tokens_file = IF outcome = "ok" THEN TokensFile(tokens) ELSE @]
           /\ ret' = [ret EXCEPT
                  !.at = "idle", !.network = Append(@, "authorize"),
                  !.returned = TRUE,
                  !.result = IF outcome = "ok"
                             THEN [ok |-> TRUE, token |-> tokens.access_token]
                             ELSE [ok |-> FALSE, token |-> <<>>]]
    /\ UNCHANGED <<program_vars, pc>>

NextOAuth ==
    \/ \E passed \in TimeSteps : GetAccessToken(passed)
    \/ \E outcome \in TokenOutcomes, expires_in \in Lifetimes, new_refresh \in BOOLEAN :
          RefreshToken(outcome, expires_in, new_refresh)
    \/ \E outcome \in TokenOutcomes, expires_in \in Lifetimes :
          Authorize(outcome, expires_in)

SpecOAuth == InitOAuth /\ [][NextOAuth]_vars

\* the call found stored tokens that expire more than 300 seconds after its
\* reading of the clock
StoredValid == ret.loaded.ok /\ ret.loaded.val.expires_at - ret.now > 300

\* the interactive flow has been started in the call
FlowStarted ==
    ret.at = "authorize" \/ \E i \in DOMAIN ret.network : ret.network[i] = "authorize"

\* C40: with a stored token that expires more than 300 seconds ahead the
\* call returns that token and makes no network call; otherwise, with a
\* stored refresh token, the first thing it does is a refresh, and when the
\* refresh succeeds it returns the refreshed token; the interactive flow is
\* started only without stored tokens, or when the stored token is not
\* valid for more than 300 seconds and there is no refresh token or the
\* refresh has failed
C40_TokenSource ==
    arg.calls > 0 =>
        /\ StoredValid =>
              /\ ret.returned
              /\ ret.result = [ok |-> TRUE, token |-> ret.loaded.val.access_token]
              /\ ret.network = <<>>
        /\ (~StoredValid /\ ret.loaded.ok /\ ret.loaded.val.refresh_token.some) =>
              /\ ret.at = "refresh" \/ (ret.network # <<>> /\ ret.network[1] = "refresh")
              /\ ret.refresh = "ok" =>
                    /\ ret.returned
                    /\ ret.result = [ok |-> TRUE, token |-> ret.refreshed]
                    /\ ret.network = <<"refresh">>
        /\ FlowStarted =>
              \/ ~ret.loaded.ok
              \/ /\ ~StoredValid
                 /\ ~ret.loaded.val.refresh_token.some \/ ret.refresh = "failed"

\* a token that expires exactly 300 seconds ahead is refreshed, and the
\* refreshed token is returned
C40_Witness ==
    /\ ret.returned
    /\ ret.loaded.ok /\ ret.loaded.val.expires_at = ret.now + 300
    /\ ret.network = <<"refresh">>
    /\ ret.result = [ok |-> TRUE, token |-> <<"T", 1>>]

\* a token that expires 301 seconds ahead is returned as it is stored
C40_WitnessStored ==
    /\ ret.returned
    /\ ret.loaded.ok /\ ret.loaded.val.expires_at = ret.now + 301
    /\ ret.network = <<>>
    /\ ret.result.ok

\* the refresh has failed and the interactive flow has given the token
C40_WitnessFlow ==
    /\ ret.returned
    /\ ret.refresh = "failed"
    /\ ret.network = <<"refresh", "authorize">>
    /\ ret.result.ok

====
